---- MODULE Spec2Model ----
(***************************************************************************)
(* Model of scripts/discord-survey-collector/bot.py: the incremental       *)
(* collection and reconciliation engine (store files, identity indices,    *)
(* attachment materialization, channel/thread traversal).                  *)
(*                                                                         *)
(* Text values are sequences of one-character strings where the code       *)
(* inspects characters (names that are slugged), and opaque strings where  *)
(* the code only compares them.  A datetime is a record [t, aware]; its    *)
(* ISO string is the record [iso, suffix] produced by _isoformat.           *)
(***************************************************************************)
EXTENDS Integers, Sequences, FiniteSets, TLC

(***************************************************************************)
(* Bounds of the exploration.                                              *)
(***************************************************************************)
MaxRuns == 2      \* runs of the engine (process starts)
MaxEvents == 2    \* events of the environment: changes of the source or of the
                  \* media directory between runs, failures raised during a run
MaxSlugLen == 3   \* length of the enumerated arguments of _safe_path_component
MaxSlugCalls == 2 \* calls of _safe_path_component made with one argument
MaxPairLen == 3   \* length of the names slugged two at a time

(***************************************************************************)
(* The chat source: one guild, two text channels, threads, a message pool. *)
(***************************************************************************)
KEYWORD == "KEYWORD"                      \* bot.py:29, the survey marker
GuildName == <<"g">>
GuildId == "gid"
Channels == <<"c1", "c2">>                \* guild.text_channels, in order
ChannelIds == {Channels[i] : i \in 1..Len(Channels)}
NamePool == {<<"a">>, <<"b">>, <<"c">>}   \* channel names the source may use
InitialName == [c \in ChannelIds |-> IF c = "c1" THEN <<"a">> ELSE <<"c">>]
CategoryOf == [c \in ChannelIds |-> "cat"]

\* Threads of a channel, by enumeration group (on_ready, bot.py:529-561).
LiveThreads == [c \in ChannelIds |-> IF c = "c1" THEN <<"t1">> ELSE <<>>]
ArchivedPublic == [c \in ChannelIds |-> IF c = "c2" THEN <<"t2">> ELSE <<>>]
ArchivedPrivate == [c \in ChannelIds |-> IF c = "c2" THEN <<"t3">> ELSE <<>>]

\* The conversations of a channel in traversal order; "" is the channel itself.
\* Faulty variant: the archived private threads come before the archived
\* public ones.
ConversationsPrivateFirst(c) == <<"">> \o LiveThreads[c] \o ArchivedPrivate[c] \o ArchivedPublic[c]
Conversations(c) == <<"">> \o LiveThreads[c] \o ArchivedPublic[c] \o ArchivedPrivate[c]

\* The message pool.  content is a sequence of tokens; attachments is the
\* sequence of remote attachment ids.
MessagePool ==
  [ m1 |-> [id |-> "m1", channel |-> "c1", thread |-> "", author |-> "u1",
            created_at |-> [t |-> 1, aware |-> TRUE],
            content |-> <<KEYWORD, "x">>, attachments |-> <<"a1", "a2">>],
    m2 |-> [id |-> "m2", channel |-> "c1", thread |-> "t1", author |-> "u2",
            created_at |-> [t |-> 2, aware |-> TRUE],
            content |-> <<>>, attachments |-> <<"a3">>],
    m3 |-> [id |-> "m3", channel |-> "c1", thread |-> "", author |-> "u1",
            created_at |-> [t |-> 3, aware |-> TRUE],
            content |-> <<"x">>, attachments |-> <<>>],
    m4 |-> [id |-> "m4", channel |-> "c2", thread |-> "", author |-> "u2",
            created_at |-> [t |-> 4, aware |-> TRUE],
            content |-> <<KEYWORD>>, attachments |-> <<>>],
    m5 |-> [id |-> "m5", channel |-> "c1", thread |-> "", author |-> "u2",
            created_at |-> [t |-> 5, aware |-> TRUE],
            content |-> <<>>, attachments |-> <<"a4">>] ]
MessageIds == DOMAIN MessagePool
InitialPosted == {"m1", "m2", "m3", "m4"}
\* The messages that may be edited, and the contents they may be edited to.
Editable == {"m1", "m2"}
EditedContents == {<<KEYWORD, "y">>, <<"y">>}

(***************************************************************************)
(* Small helpers.                                                          *)
(***************************************************************************)
None == 0                                  \* Python None / a missing handle
Range(s) == {s[i] : i \in 1..Len(s)}
Contains(content, tok) == \E i \in 1..Len(content) : content[i] = tok
Perms(S) == {p \in [1..Cardinality(S) -> S] : \A i, j \in 1..Cardinality(S) : p[i] = p[j] => i = j}

\* An insertion-ordered dict as a sequence of <<key, value>> pairs.
DictHas(d, k) == \E i \in 1..Len(d) : d[i][1] = k
DictGet(d, k) == IF DictHas(d, k) THEN d[CHOOSE i \in 1..Len(d) : d[i][1] = k][2] ELSE None
DictSet(d, k, v) ==
  IF DictHas(d, k) THEN [i \in 1..Len(d) |-> IF d[i][1] = k THEN <<k, v>> ELSE d[i]]
  ELSE Append(d, <<k, v>>)
DictValues(d) == [i \in 1..Len(d) |-> d[i][2]]

\* An unordered dict (only get/pop/set are used on it) as a function.
MapGet(f, k) == IF k \in DOMAIN f THEN f[k] ELSE None
MapSet(f, k, v) == [x \in (DOMAIN f) \cup {k} |-> IF x = k THEN v ELSE f[x]]
MapPop(f, k) == [x \in (DOMAIN f) \ {k} |-> f[x]]
EmptyMap == [x \in {} |-> None]

(***************************************************************************)
(* Pure functions of bot.py.                                               *)
(***************************************************************************)
\* _isoformat (bot.py:76-79): the ISO string of a datetime, as [iso, suffix].
_isoformat(dt) ==
  IF ~dt.aware THEN [iso |-> dt.t, suffix |-> "Z"] ELSE [iso |-> dt.t, suffix |-> "+00:00"]

LowerLetters == <<"a","b","c","d","e","f","g","h","i","j","k","l","m",
                  "n","o","p","q","r","s","t","u","v","w","x","y","z">>
UpperLetters == <<"A","B","C","D","E","F","G","H","I","J","K","L","M",
                  "N","O","P","Q","R","S","T","U","V","W","X","Y","Z">>
DigitChars == <<"0","1","2","3","4","5","6","7","8","9">>
HexChars == DigitChars \o <<"a","b","c","d","e","f">>
Whitespace == {" ", "\t", "\n"}
OtherAscii == {"!", ".", "#", "/", "=", "\\"}
IsAlnum(ch) == ch \in Range(LowerLetters) \cup Range(UpperLetters) \cup Range(DigitChars)
IsAscii(ch) == IsAlnum(ch) \/ ch \in Whitespace \cup {"-", "_"} \cup OtherAscii
Lower(ch) ==
  IF ch \in Range(UpperLetters)
  THEN LowerLetters[CHOOSE i \in 1..Len(UpperLetters) : UpperLetters[i] = ch]
  ELSE ch
Upper(ch) ==
  IF ch \in Range(LowerLetters)
  THEN UpperLetters[CHOOSE i \in 1..Len(LowerLetters) : LowerLetters[i] = ch]
  ELSE ch
LowerSeq(s) == [i \in 1..Len(s) |-> Lower(s[i])]
UpperSeq(s) == [i \in 1..Len(s) |-> Upper(s[i])]

\* Characters outside ASCII, written by code point: e with acute, not equal
\* to, diaeresis, combining diaeresis, fullwidth A, ideographic space, the
\* katakana-hiragana prolonged sound mark, a CJK ideograph, katakana TU and
\* small TU, an emoji, and a private-use character, which has no name.
NonAscii ==
  {"U+00E9", "U+2260", "U+00A8", "U+0308", "U+FF21", "U+3000", "U+30FC", "U+6F22",
   "U+30C4", "U+30C3", "U+1F600", "U+E000"}
\* str.isspace, which str.strip() goes by.
IsSpace(ch) == ch \in Whitespace \cup {"U+3000"}
\* unicodedata.normalize("NFKC", .) (bot.py:88): fullwidth A is A, the
\* ideographic space is a space, the diaeresis is a space and a combining
\* diaeresis; the other characters are their own normal form.
NFKC1(ch) ==
  CASE ch = "U+FF21" -> <<"A">>
    [] ch = "U+3000" -> <<" ">>
    [] ch = "U+00A8" -> <<" ", "U+0308">>
    [] OTHER -> <<ch>>
RECURSIVE NFKCBetween(_, _, _)
NFKCBetween(s, lo, hi) ==
  IF lo > hi THEN <<>>
  ELSE IF lo = hi THEN NFKC1(s[lo])
  ELSE NFKCBetween(s, lo, (lo + hi) \div 2) \o NFKCBetween(s, (lo + hi) \div 2 + 1, hi)
NFKC(s) == NFKCBetween(s, 1, Len(s))
\* unicodedata.normalize("NFKD", ch).encode("ascii", "ignore").decode("ascii")
\* (bot.py:101): the ASCII characters of the decomposition.
AsciiEquiv(ch) ==
  CASE ch = "U+00E9" -> <<"e">>
    [] ch = "U+2260" -> <<"=">>
    [] OTHER -> <<>>
\* unicodedata.name(ch, "") (bot.py:106).
UnicodeName(ch) ==
  CASE ch = "U+00E9" -> <<"L", "A", "T", "I", "N", " ", "S", "M", "A", "L", "L", " ", "L", "E", "T", "T", "E", "R", " ", "E", " ", "W", "I", "T", "H", " ", "A", "C", "U", "T", "E">>
    [] ch = "U+2260" -> <<"N", "O", "T", " ", "E", "Q", "U", "A", "L", " ", "T", "O">>
    [] ch = "U+0308" -> <<"C", "O", "M", "B", "I", "N", "I", "N", "G", " ", "D", "I", "A", "E", "R", "E", "S", "I", "S">>
    [] ch = "U+30FC" -> <<"K", "A", "T", "A", "K", "A", "N", "A", "-", "H", "I", "R", "A", "G", "A", "N", "A", " ", "P", "R", "O", "L", "O", "N", "G", "E", "D", " ", "S", "O", "U", "N", "D", " ", "M", "A", "R", "K">>
    [] ch = "U+6F22" -> <<"C", "J", "K", " ", "U", "N", "I", "F", "I", "E", "D", " ", "I", "D", "E", "O", "G", "R", "A", "P", "H", "-", "6", "F", "2", "2">>
    [] ch = "U+30C4" -> <<"K", "A", "T", "A", "K", "A", "N", "A", " ", "L", "E", "T", "T", "E", "R", " ", "T", "U">>
    [] ch = "U+30C3" -> <<"K", "A", "T", "A", "K", "A", "N", "A", " ", "L", "E", "T", "T", "E", "R", " ", "S", "M", "A", "L", "L", " ", "T", "U">>
    [] ch = "U+1F600" -> <<"G", "R", "I", "N", "N", "I", "N", "G", " ", "F", "A", "C", "E">>
    [] OTHER -> <<>>
\* f"{ord(ch):04x}" (bot.py:127).
OrdHex(ch) ==
  CASE ch = "U+00E9" -> <<"0", "0", "e", "9">>
    [] ch = "U+2260" -> <<"2", "2", "6", "0">>
    [] ch = "U+0308" -> <<"0", "3", "0", "8">>
    [] ch = "U+30FC" -> <<"3", "0", "f", "c">>
    [] ch = "U+6F22" -> <<"6", "f", "2", "2">>
    [] ch = "U+30C4" -> <<"3", "0", "c", "4">>
    [] ch = "U+30C3" -> <<"3", "0", "c", "3">>
    [] ch = "U+1F600" -> <<"1", "f", "6", "0", "0">>
    [] ch = "U+E000" -> <<"e", "0", "0", "0">>
    [] OTHER -> <<"0", "0", "0", "0">>

RECURSIVE LStrip(_, _)
LStrip(s, chars) == IF s # <<>> /\ Head(s) \in chars THEN LStrip(Tail(s), chars) ELSE s
RECURSIVE RStrip(_, _)
RStrip(s, chars) ==
  IF s # <<>> /\ s[Len(s)] \in chars THEN RStrip(SubSeq(s, 1, Len(s) - 1), chars) ELSE s
Strip(s, chars) == RStrip(LStrip(s, chars), chars)

\* str methods on sequences of characters.
StartsWith(s, prefix) == Len(s) >= Len(prefix) /\ SubSeq(s, 1, Len(prefix)) = prefix
Occurrences(s, sub) == {i \in 1..(Len(s) - Len(sub) + 1) : SubSeq(s, i, i + Len(sub) - 1) = sub}
HasSubstring(s, sub) == Occurrences(s, sub) # {}
LastOf(positions) == CHOOSE i \in positions : \A j \in positions : j <= i
FirstOf(positions) == CHOOSE i \in positions : \A j \in positions : i <= j
\* s.split(sub, 1)[1] for an s that contains sub.
AfterFirst(s, sub) == SubSeq(s, FirstOf(Occurrences(s, sub)) + Len(sub), Len(s))
\* s.rsplit(sub, 1)[-1].
AfterLast(s, sub) ==
  IF HasSubstring(s, sub) THEN SubSeq(s, LastOf(Occurrences(s, sub)) + Len(sub), Len(s)) ELSE s
RECURSIVE Replace(_, _, _)
Replace(s, old, new) ==
  IF s = <<>> THEN <<>>
  ELSE IF StartsWith(s, old) THEN new \o Replace(SubSeq(s, Len(old) + 1, Len(s)), old, new)
  ELSE <<Head(s)>> \o Replace(Tail(s), old, new)
\* [tok for tok in re.split(r"[-\\s]+", s) if tok] (bot.py:118): in the raw
\* string the class holds the hyphen, the backslash and the letter s.
TokenSeparators == {"-", "\\", "s"}
RECURSIVE SplitTokens(_, _)
SplitTokens(s, token) ==
  IF s = <<>> THEN (IF token = <<>> THEN <<>> ELSE <<token>>)
  ELSE IF Head(s) \in TokenSeparators
       THEN (IF token = <<>> THEN <<>> ELSE <<token>>) \o SplitTokens(Tail(s), <<>>)
       ELSE SplitTokens(Tail(s), Append(token, Head(s)))

\* _KANA_ROMAJI_OVERRIDES (bot.py:31-52).
_KANA_ROMAJI_OVERRIDES ==
  <<<<<<"S", "I">>, <<"s", "h", "i">>>>,
    <<<<"Z", "I">>, <<"j", "i">>>>,
    <<<<"J", "I">>, <<"j", "i">>>>,
    <<<<"T", "I">>, <<"c", "h", "i">>>>,
    <<<<"D", "I">>, <<"j", "i">>>>,
    <<<<"T", "U">>, <<"t", "s", "u">>>>,
    <<<<"D", "U">>, <<"z", "u">>>>,
    <<<<"S", "H", "I">>, <<"s", "h", "i">>>>,
    <<<<"C", "H", "I">>, <<"c", "h", "i">>>>,
    <<<<"T", "S", "U">>, <<"t", "s", "u">>>>,
    <<<<"H", "U">>, <<"f", "u">>>>,
    <<<<"F", "U">>, <<"f", "u">>>>,
    <<<<"W", "O">>, <<"o">>>>,
    <<<<"W", "I">>, <<"w", "i">>>>,
    <<<<"W", "E">>, <<"w", "e">>>>,
    <<<<"V", "A">>, <<"v", "a">>>>,
    <<<<"V", "I">>, <<"v", "i">>>>,
    <<<<"V", "E">>, <<"v", "e">>>>,
    <<<<"V", "O">>, <<"v", "o">>>>,
    <<<<"V">>, <<"v">>>>>>
\* _romanize_kana_token (bot.py:82-84).
_romanize_kana_token(token) ==
  LET upper == UpperSeq(token) IN
  IF DictHas(_KANA_ROMAJI_OVERRIDES, upper) THEN DictGet(_KANA_ROMAJI_OVERRIDES, upper)
  ELSE LowerSeq(upper)
RECURSIVE Romanized(_)
Romanized(tokens) ==
  IF tokens = <<>> THEN <<>> ELSE _romanize_kana_token(Head(tokens)) \o Romanized(Tail(tokens))

\* bot.py:106-122: what the name of a character outside ASCII gives.
Candidate(name) ==
  IF StartsWith(name, <<"C", "J", "K", " ", "U", "N", "I", "F", "I", "E", "D", " ", "I", "D", "E", "O", "G", "R", "A", "P", "H", "-">>)
  THEN <<"u">> \o LowerSeq(AfterLast(name, <<"-">>))
  ELSE IF HasSubstring(name, <<"L", "E", "T", "T", "E", "R">>)
  THEN LET split == AfterFirst(name, <<"L", "E", "T", "T", "E", "R">>)
           letter_part == Strip(Replace(split, <<" ", "S", "M", "A", "L", "L", " ">>, <<" ">>), Whitespace)
       IN Romanized(SplitTokens(letter_part, <<>>))
  ELSE name
\* One iteration of the loop of _safe_path_component (bot.py:93-127): ASCII
\* alphanumerics pass, space, hyphen and underscore give "-", other ASCII
\* gives nothing; a character outside ASCII gives its ASCII decomposition,
\* or "-" for the prolonged sound mark, or what its name gives, or "u" and
\* its code point.
SlugPiece(ch) ==
  IF IsAscii(ch)
  THEN (IF IsAlnum(ch) THEN <<ch>> ELSE IF ch \in {" ", "-", "_"} THEN <<"-">> ELSE <<>>)
  ELSE IF AsciiEquiv(ch) # <<>> THEN AsciiEquiv(ch)
  ELSE IF UnicodeName(ch) = <<"K", "A", "T", "A", "K", "A", "N", "A", "-", "H", "I", "R", "A", "G", "A", "N", "A", " ", "P", "R", "O", "L", "O", "N", "G", "E", "D", " ", "S", "O", "U", "N", "D", " ", "M", "A", "R", "K">> THEN <<"-">>
  ELSE IF Candidate(UnicodeName(ch)) # <<>> THEN Candidate(UnicodeName(ch))
  ELSE <<"u">> \o OrdHex(ch)
RECURSIVE SlugPiecesBetween(_, _, _)
SlugPiecesBetween(s, lo, hi) ==
  IF lo > hi THEN <<>>
  ELSE IF lo = hi THEN SlugPiece(s[lo])
  ELSE SlugPiecesBetween(s, lo, (lo + hi) \div 2) \o SlugPiecesBetween(s, (lo + hi) \div 2 + 1, hi)
SlugPieces(s) == SlugPiecesBetween(s, 1, Len(s))

\* re.sub(r"[^0-9A-Za-z]+", "-", raw_slug) (bot.py:130): an alphanumeric
\* stays, the first character of a run of others gives "-", the rest of the
\* run gives nothing.
CollapsedAt(s, i) ==
  IF IsAlnum(s[i]) THEN <<s[i]>>
  ELSE IF i = 1 \/ IsAlnum(s[i - 1]) THEN <<"-">> ELSE <<>>
RECURSIVE CollapseBetween(_, _, _)
CollapseBetween(s, lo, hi) ==
  IF lo > hi THEN <<>>
  ELSE IF lo = hi THEN CollapsedAt(s, lo)
  ELSE CollapseBetween(s, lo, (lo + hi) \div 2) \o CollapseBetween(s, (lo + hi) \div 2 + 1, hi)
CollapseNonAlnum(s) == CollapseBetween(s, 1, Len(s))

\* hashlib.sha1(...).hexdigest()[:10] (bot.py:132), abstracted to a 10-digit
\* hexadecimal checksum of the characters and their positions.
CharCode(ch) ==
  LET table == LowerLetters \o UpperLetters \o DigitChars
                 \o <<" ", "\t", "\n", "-", "_", "!", ".", "#", "/", "=", "\\",
                      "U+00E9", "U+2260", "U+00A8", "U+0308", "U+FF21", "U+3000", "U+30FC",
                      "U+6F22", "U+30C4", "U+30C3", "U+1F600", "U+E000">> IN
  IF ch \in Range(table) THEN CHOOSE i \in 1..Len(table) : table[i] = ch ELSE 0
RECURSIVE ChecksumBetween(_, _, _)
ChecksumBetween(s, lo, hi) ==
  IF lo > hi THEN 0
  ELSE IF lo = hi THEN (CharCode(s[lo]) + 7) * ((lo % 1021) + 1)
  ELSE (ChecksumBetween(s, lo, (lo + hi) \div 2) + ChecksumBetween(s, (lo + hi) \div 2 + 1, hi)) % 1048576
Checksum(s) == (ChecksumBetween(s, 1, Len(s)) + 31 * Len(s)) % 1048576
Sha1Hex10(s) ==
  LET h == Checksum(s) IN
  [i \in 1..10 |-> HexChars[((h \div (IF i <= 5 THEN 16 ^ (5 - i) ELSE 16 ^ (10 - i))) % 16) + 1]]

\* Faulty variant: no digest when nothing is left of the name.
_safe_path_component_NoDigest(value) ==
  LET normalized == NFKC(Strip(value, {c \in Range(value) : IsSpace(c)}))
      raw_slug == SlugPieces(normalized)
      collapsed == Strip(CollapseNonAlnum(raw_slug), {"-"})
      slug == LowerSeq(collapsed)
  IN IF normalized = <<>> THEN <<"u","n","k","n","o","w","n">>
     ELSE SubSeq(slug, 1, IF Len(slug) < 80 THEN Len(slug) ELSE 80)

\* _safe_path_component (bot.py:87-134).
_safe_path_component(value) ==
  LET normalized == NFKC(Strip(value, {c \in Range(value) : IsSpace(c)}))
      raw_slug == SlugPieces(normalized)
      collapsed == Strip(CollapseNonAlnum(raw_slug), {"-"})
      slug == LowerSeq(collapsed)
      final == IF slug = <<>> THEN <<"s","l","u","g","-">> \o Sha1Hex10(normalized) ELSE slug
  IN IF normalized = <<>> THEN <<"u","n","k","n","o","w","n">>
     ELSE SubSeq(final, 1, IF Len(final) < 80 THEN Len(final) ELSE 80)

\* _compute_store_path (bot.py:137-140): STORE_ROOT / guild_part / channel_part.json
_compute_store_path(guild_name, channel_name) ==
  <<_safe_path_component(guild_name), _safe_path_component(channel_name)>>

\* _legacy_key_from_values (bot.py:143-165).  created_at is either a string
\* (an [iso, suffix] record) or a datetime, as in the code.
IsDatetime(v) == DOMAIN v = {"t", "aware"}
_legacy_key_from_values(guild_name, category_name, channel_name, thread_name, author, created_at, content) ==
  LET thread_part == thread_name
      created_str == IF IsDatetime(created_at) THEN _isoformat(created_at) ELSE created_at
  IN <<guild_name, category_name, channel_name, thread_part, author, created_str, content>>

(***************************************************************************)
(* State.                                                                  *)
(***************************************************************************)
VARIABLES
  posted,                \* source: ids of the messages that exist
  content,               \* source: current content of each message
  chanName,              \* source: current name of each channel
  disk,                  \* STORE_ROOT: path -> persisted document
  media,                 \* MEDIA_ROOT: names of the files present
  states,                \* the StoreState objects of the process, by handle
  store_states,          \* bot.py:72, channel id -> handle (insertion ordered)
  store_states_by_name,  \* bot.py:73, <<guild, channel>> -> handle
  pc,                    \* position of on_ready
  ci,                    \* index of the channel being processed
  vi,                    \* index of the conversation of that channel
  mi,                    \* index of the next message of that conversation
  cur,                   \* on_ready's local variable `state` (a handle)
  nextUuid,              \* source of uuid4() values
  runs, events,          \* counters of the exploration
  dl,                    \* observation: downloads attempted by the last message step
  runDl,                 \* observation: downloads attempted in the current/last run
  failed,                \* observation: conversations that failed in the current/last run,
                         \* each with its error, the seconds slept by its handler and the
                         \* number of messages processed before the failure
  runClean,              \* observation: no failure in the current/last run
  lastPosted,            \* observation: the messages that existed when that run started
  basePosted,            \* observation: those that existed when the run before it started
  base,                  \* observation: the store as the current/last run found it
  baseMedia,             \* observation: the media directory as that run found it
  baseClean,             \* observation: the run before it ended without failure
  baseEnv,               \* observation: what changed between those two runs
  envLog,                \* observation: what changed since the last run ended
  runLog,                \* observation: conversations started and files written by the run
  unwritten,             \* observation: the document a persist was writing when the process
                         \* stopped in it, if the last run or the one before it ended so,
                         \* and whether that run had met no failure until then
  slugIn,                \* the argument of the calls of _safe_path_component under study
  slugOut,               \* the value its last call returned
  slugCalls              \* the number of calls made with that argument

srcVars == <<posted, content, chanName>>
fsVars == <<disk, media>>
memVars == <<states, store_states, store_states_by_name>>
posVars == <<pc, ci, vi, mi, cur>>
obsVars == <<dl, runDl, failed, runClean, basePosted, lastPosted, unwritten, base, baseMedia, baseClean, baseEnv, envLog, runLog>>
slugVars == <<slugIn, slugOut, slugCalls>>
vars == <<srcVars, fsVars, memVars, posVars, nextUuid, runs, events, obsVars, slugVars>>

\* The message as the source delivers it now.
Message(m) == [MessagePool[m] EXCEPT !.content = content[m]]

\* history(limit=None, oldest_first=True) of a conversation (bot.py:339).
RECURSIVE SortByTime(_)
SortByTime(S) ==
  IF S = {} THEN <<>>
  ELSE LET m == CHOOSE x \in S : \A y \in S : MessagePool[x].created_at.t <= MessagePool[y].created_at.t
       IN <<m>> \o SortByTime(S \ {m})
History(c, thread) ==
  SortByTime({m \in posted : MessagePool[m].channel = c /\ MessagePool[m].thread = thread})

(***************************************************************************)
(* StateStore: load, registries, persist.                                  *)
(***************************************************************************)
\* A file that holds no complete document, by what reading it raises:
\* json.loads rejects it (an empty or cut text), or read_text cannot decode
\* it (a text cut inside a multi-byte character; documents are written with
\* ensure_ascii=False, bot.py:253).
CORRUPT == [corrupt |-> "JSONDecodeError"]
UNDECODABLE == [corrupt |-> "UnicodeDecodeError"]
IsCorrupt(d) == DOMAIN d = {"corrupt"}

\* The index a load builds over one record list (bot.py:210-240): the last
\* record with a given key wins, since each assignment overwrites.
IdIndex(list) ==
  [k \in {list[i].message_id : i \in 1..Len(list)} \ {""} |->
     LastOf({i \in 1..Len(list) : list[i].message_id = k})]
EntryLegacyKey(data, entry) ==
  _legacy_key_from_values(data.guild, data.category, data.channel, entry.thread,
                          entry.author, entry.created_at, entry.content)
LegacyIndex(data, list) ==
  [k \in {EntryLegacyKey(data, list[i]) : i \in {j \in 1..Len(list) : list[j].message_id = ""}} |->
     LastOf({i \in 1..Len(list) : list[i].message_id = "" /\ EntryLegacyKey(data, list[i]) = k})]

\* StoreState(data=..., path=...) (bot.py:62-69).
StoreState(data, path) ==
  [data |-> data, path |-> path, surveys |-> EmptyMap, survey_legacy |-> EmptyMap,
   assets |-> EmptyMap, asset_legacy |-> EmptyMap]

\* _register_state (bot.py:184-191) on the registries R = [states, ss, byname].
_register_state(R, h, channel_id, guild_name, channel_name) ==
  LET ss1 == IF channel_id # "" THEN DictSet(R.ss, channel_id, h) ELSE R.ss
      st1 == IF channel_id # ""
             THEN [R.states EXCEPT ![h].data.channel_id = channel_id] ELSE R.states
      kept == SelectSeq(R.byname, LAMBDA e : ~(e[2] = h /\ e[1] # <<guild_name, channel_name>>))
  IN [states |-> st1, ss |-> ss1, byname |-> DictSet(kept, <<guild_name, channel_name>>, h)]

\* One iteration of the loop of _load_existing_store_files (bot.py:198-248).
LoadFile(R, store_file) ==
  LET data == disk[store_file] IN
  IF IsCorrupt(data) THEN R
  ELSE
    LET state == [StoreState(data, store_file) EXCEPT
                    !.surveys = IdIndex(data.surveys),
                    !.survey_legacy = LegacyIndex(data, data.surveys),
                    !.assets = IdIndex(data.assets),
                    !.asset_legacy = LegacyIndex(data, data.assets)]
        h == Len(R.states) + 1
        R1 == [R EXCEPT !.states = Append(R.states, state)]
    IN IF data.channel_id # ""
       THEN _register_state(R1, h, data.channel_id, data.guild, data.channel)
       ELSE [R1 EXCEPT !.byname = DictSet(R1.byname, <<data.guild, data.channel>>, h)]

\* _load_existing_store_files (bot.py:194-248); order is the order glob yields.
RECURSIVE LoadAll(_, _)
LoadAll(R, order) ==
  IF order = <<>> THEN R ELSE LoadAll(LoadFile(R, Head(order)), Tail(order))
_load_existing_store_files(order) ==
  LoadAll([states |-> <<>>, ss |-> <<>>, byname |-> <<>>], order)
\* read_text (bot.py:200) raises on a file it cannot decode; only
\* json.JSONDecodeError is caught (bot.py:201), so the load raises.
LoadRaises == \E p \in DOMAIN disk : disk[p] = UNDECODABLE

\* _iter_states (bot.py:168-181): each object once, store_states first.
RECURSIVE Dedup(_, _)
Dedup(s, seen) ==
  IF s = <<>> THEN <<>>
  ELSE IF Head(s) \in seen THEN Dedup(Tail(s), seen)
  ELSE <<Head(s)>> \o Dedup(Tail(s), seen \cup {Head(s)})
_iter_states == Dedup(DictValues(store_states) \o DictValues(store_states_by_name), {})

\* _write_store_state (bot.py:251-253) on a file system d.
_write_store_state(d, state) ==
  [p \in (DOMAIN d) \cup {state.path} |-> IF p = state.path THEN state.data ELSE d[p]]
RECURSIVE WriteAll(_, _)
WriteAll(d, hs) ==
  IF hs = <<>> THEN d ELSE WriteAll(_write_store_state(d, states[Head(hs)]), Tail(hs))

\* Faulty variant: a channel whose id is not registered gets a new document,
\* the registry by name is not consulted.
_get_state_for_channel_IdOnly(R, channel_id, channel_name, category_name) ==
  LET byId == DictGet(R.ss, channel_id)
      fresh == StoreState([guild |-> GuildName, guild_id |-> GuildId, category |-> category_name,
                           channel |-> channel_name, channel_id |-> channel_id,
                           surveys |-> <<>>, assets |-> <<>>],
                          _compute_store_path(GuildName, channel_name))
      R0 == IF byId = None THEN [R EXCEPT !.states = Append(R.states, fresh)] ELSE R
      h == IF byId # None THEN byId ELSE Len(R.states) + 1
  IN _register_state(R0, h, channel_id, GuildName, channel_name)

\* Faulty variant: the scope fields are refreshed but the target path is the
\* one the document was loaded from.
_get_state_for_channel_KeepingPath(R, channel_id, channel_name, category_name) ==
  LET byId == DictGet(R.ss, channel_id)
      byName == DictGet(R.byname, <<GuildName, channel_name>>)
      fresh == StoreState([guild |-> GuildName, guild_id |-> GuildId, category |-> category_name,
                           channel |-> channel_name, channel_id |-> channel_id,
                           surveys |-> <<>>, assets |-> <<>>],
                          _compute_store_path(GuildName, channel_name))
      R0 == IF byId = None /\ byName = None
            THEN [R EXCEPT !.states = Append(R.states, fresh)] ELSE R
      h == IF byId # None THEN byId ELSE IF byName # None THEN byName ELSE Len(R.states) + 1
      R1 == _register_state(R0, h, channel_id, GuildName, channel_name)
  IN [R1 EXCEPT !.states[h].data.guild = GuildName,
                !.states[h].data.guild_id = GuildId,
                !.states[h].data.category = category_name,
                !.states[h].data.channel = channel_name,
                !.states[h].data.channel_id = channel_id]

\* _get_state_for_channel (bot.py:473-503).
_get_state_for_channel(R, channel_id, channel_name, category_name) ==
  LET byId == DictGet(R.ss, channel_id)
      byName == DictGet(R.byname, <<GuildName, channel_name>>)
      fresh == StoreState([guild |-> GuildName, guild_id |-> GuildId, category |-> category_name,
                           channel |-> channel_name, channel_id |-> channel_id,
                           surveys |-> <<>>, assets |-> <<>>],
                          _compute_store_path(GuildName, channel_name))
      R0 == IF byId = None /\ byName = None
            THEN [R EXCEPT !.states = Append(R.states, fresh)] ELSE R
      h == IF byId # None THEN byId ELSE IF byName # None THEN byName ELSE Len(R.states) + 1
      R1 == _register_state(R0, h, channel_id, GuildName, channel_name)
  IN [R1 EXCEPT !.states[h].data.guild = GuildName,
                !.states[h].data.guild_id = GuildId,
                !.states[h].data.category = category_name,
                !.states[h].data.channel = channel_name,
                !.states[h].data.channel_id = channel_id,
                !.states[h].path = _compute_store_path(GuildName, channel_name)]

(***************************************************************************)
(* AttachmentMaterializer.                                                 *)
(***************************************************************************)
NoName == 0                       \* a missing or empty stored_filename
Uuid(n) == n                      \* uuid4().hex of the n-th call
LocalPath(stored_filename) == <<"media", stored_filename>>
AttachmentEntry(attachment_id, stored_filename) ==
  [id |-> attachment_id, stored_filename |-> stored_filename,
   local_path |-> LocalPath(stored_filename)]

\* existing = {att.get("id"): att for att in attachments if att.get("id")}
\* (bot.py:273), as a map from id to the position of the entry.
ExistingMap(attachments) ==
  [k \in {attachments[i].id : i \in 1..Len(attachments)} \ {""} |->
     LastOf({i \in 1..Len(attachments) : attachments[i].id = k})]

\* Faulty variant of the iteration: the test `attachment_id not in existing`
\* is dropped, and a reference is appended for a known attachment too.
HandleOneAppendingKnown(acc, attachment_id, failing) ==
  LET pos == MapGet(acc.existing, attachment_id)
      found == pos # None
      old_name == IF found THEN acc.atts[pos].stored_filename ELSE NoName
      generate == old_name = NoName
      stored_filename == IF generate THEN Uuid(acc.uuid) ELSE old_name
      uuid1 == IF generate THEN acc.uuid + 1 ELSE acc.uuid
      present == stored_filename \in acc.media
      ok == attachment_id \notin failing
      log1 == IF present THEN acc.log
              ELSE Append(acc.log, [id |-> attachment_id, file |-> stored_filename,
                                    ok |-> ok, repair |-> found])
      media1 == IF ~present /\ ok THEN acc.media \cup {stored_filename} ELSE acc.media
      skipped == ~present /\ ~ok
  IN IF skipped
     THEN [acc EXCEPT !.media = media1, !.uuid = uuid1, !.log = log1]
     ELSE [atts |-> Append(acc.atts, AttachmentEntry(attachment_id, stored_filename)),
           existing |-> MapSet(acc.existing, attachment_id, Len(acc.atts) + 1),
           media |-> media1, uuid |-> uuid1, log |-> log1]

\* One iteration of the loop of _handle_attachments (bot.py:275-318).
\* acc = [atts, existing, media, uuid, log]; failing = ids whose save raises.
HandleOne(acc, attachment_id, failing) ==
  LET pos == MapGet(acc.existing, attachment_id)
      found == pos # None
      old_name == IF found THEN acc.atts[pos].stored_filename ELSE NoName
      generate == old_name = NoName
      stored_filename == IF generate THEN Uuid(acc.uuid) ELSE old_name
      uuid1 == IF generate THEN acc.uuid + 1 ELSE acc.uuid
      atts1 == IF found
               THEN [acc.atts EXCEPT ![pos].stored_filename = stored_filename,
                                     ![pos].local_path = LocalPath(stored_filename)]
               ELSE acc.atts
      present == stored_filename \in acc.media
      ok == attachment_id \notin failing
      log1 == IF present THEN acc.log
              ELSE Append(acc.log, [id |-> attachment_id, file |-> stored_filename,
                                    ok |-> ok, repair |-> found])
      media1 == IF ~present /\ ok THEN acc.media \cup {stored_filename} ELSE acc.media
      skipped == ~present /\ ~ok
  IN IF found \/ skipped
     THEN [acc EXCEPT !.atts = atts1, !.media = media1, !.uuid = uuid1, !.log = log1]
     ELSE [atts |-> Append(atts1, AttachmentEntry(attachment_id, stored_filename)),
           existing |-> MapSet(acc.existing, attachment_id, Len(atts1) + 1),
           media |-> media1, uuid |-> uuid1, log |-> log1]

\* Faulty variants of the loop, used to test the properties below.
\* A known attachment is not looked up, and is appended again.
RECURSIVE HandleLoopAppending(_, _, _)
HandleLoopAppending(acc, ids, failing) ==
  IF ids = <<>> THEN acc
  ELSE HandleLoopAppending(HandleOne([acc EXCEPT !.existing = EmptyMap], Head(ids), failing),
                           Tail(ids), failing)
\* The first failed download ends the loop.
RECURSIVE HandleLoopBreaking(_, _, _)
HandleLoopBreaking(acc, ids, failing) ==
  IF ids = <<>> THEN acc
  ELSE LET acc1 == HandleOne(acc, Head(ids), failing) IN
       IF Len(acc1.log) > Len(acc.log) /\ ~acc1.log[Len(acc1.log)].ok THEN acc1
       ELSE HandleLoopBreaking(acc1, Tail(ids), failing)

RECURSIVE HandleLoop(_, _, _)
HandleLoop(acc, ids, failing) ==
  IF ids = <<>> THEN acc ELSE HandleLoop(HandleOne(acc, Head(ids), failing), Tail(ids), failing)

\* _handle_attachments (bot.py:256-320): the entry's new attachment list, the
\* media directory, the uuid source and the downloads attempted.
_handle_attachments(message, entry, med, uuid, failing) ==
  IF message.attachments = <<>>
  THEN [atts |-> entry.attachments, existing |-> EmptyMap, media |-> med, uuid |-> uuid, log |-> <<>>]
  ELSE HandleLoop([atts |-> entry.attachments, existing |-> ExistingMap(entry.attachments),
                   media |-> med, uuid |-> uuid, log |-> <<>>],
                  message.attachments, failing)

(***************************************************************************)
(* IdentityResolver and classification (the loop body of _collect_history).*)
(***************************************************************************)
ListOf(kind) == IF kind = "survey" THEN "surveys" ELSE "assets"
LegacyOf(kind) == IF kind = "survey" THEN "survey_legacy" ELSE "asset_legacy"

\* Faulty variant: attachments are looked at before the marker.
ClassifyAttachmentsFirst(message) ==
  IF message.attachments # <<>> THEN "asset"
  ELSE IF Contains(message.content, KEYWORD) THEN "survey"
  ELSE "none"

\* bot.py:344 and 405-407.
Classify(message) ==
  IF Contains(message.content, KEYWORD) THEN "survey"
  ELSE IF message.attachments # <<>> THEN "asset"
  ELSE "none"

\* bot.py:358-368 and 422-429.
NewEntry(kind, message, guild_name, category_name, channel_name, thread_name) ==
  IF kind = "survey"
  THEN [guild |-> guild_name, category |-> category_name, channel |-> channel_name,
        author |-> message.author, content |-> message.content,
        created_at |-> _isoformat(message.created_at), message_id |-> message.id,
        thread |-> thread_name, attachments |-> <<>>]
  ELSE [message_id |-> message.id, author |-> message.author, content |-> message.content,
        created_at |-> _isoformat(message.created_at),
        thread |-> thread_name, attachments |-> <<>>]

\* Faulty variant of the resolution: a created record is appended to the
\* list and not entered in the id index.
ResolveNotIndexing(st, kind, message, guild_name, category_name, channel_name, thread_name) ==
  LET list == st.data[ListOf(kind)]
      hit == MapGet(st[ListOf(kind)], message.id)
      legacy_key == _legacy_key_from_values(guild_name, category_name, channel_name, thread_name,
                                            message.author, message.created_at, message.content)
      old == MapGet(st[LegacyOf(kind)], legacy_key)
  IN IF hit # None THEN [st |-> st, pos |-> hit, how |-> "hit"]
     ELSE IF old # None
     THEN [st |-> [st EXCEPT ![LegacyOf(kind)] = MapPop(@, legacy_key),
                             !.data[ListOf(kind)][old].message_id = message.id,
                             !.data[ListOf(kind)][old].author = message.author,
                             !.data[ListOf(kind)][old].content = message.content,
                             !.data[ListOf(kind)][old].created_at = _isoformat(message.created_at),
                             !.data[ListOf(kind)][old].thread = thread_name,
                             ![ListOf(kind)] = MapSet(@, message.id, old)],
           pos |-> old, how |-> "promoted"]
     ELSE [st |-> [st EXCEPT !.data[ListOf(kind)] =
                               Append(@, NewEntry(kind, message, guild_name, category_name,
                                                  channel_name, thread_name))],
           pos |-> Len(list) + 1, how |-> "created"]

\* bot.py:345-379 and 409-440: the StoreState after the record of the message
\* was found, promoted from the legacy index, or created; pos is its position.
Resolve(st, kind, message, guild_name, category_name, channel_name, thread_name) ==
  LET list == st.data[ListOf(kind)]
      hit == MapGet(st[ListOf(kind)], message.id)
      legacy_key == _legacy_key_from_values(guild_name, category_name, channel_name, thread_name,
                                            message.author, message.created_at, message.content)
      old == MapGet(st[LegacyOf(kind)], legacy_key)
  IN IF hit # None THEN [st |-> st, pos |-> hit, how |-> "hit"]
     ELSE IF old # None
     THEN [st |-> [st EXCEPT ![LegacyOf(kind)] = MapPop(@, legacy_key),
                             !.data[ListOf(kind)][old].message_id = message.id,
                             !.data[ListOf(kind)][old].author = message.author,
                             !.data[ListOf(kind)][old].content = message.content,
                             !.data[ListOf(kind)][old].created_at = _isoformat(message.created_at),
                             !.data[ListOf(kind)][old].thread = thread_name,
                             ![ListOf(kind)] = MapSet(@, message.id, old)],
           pos |-> old, how |-> "promoted"]
     ELSE [st |-> [st EXCEPT !.data[ListOf(kind)] =
                               Append(@, NewEntry(kind, message, guild_name, category_name,
                                                  channel_name, thread_name)),
                             ![ListOf(kind)] = MapSet(@, message.id, Len(list) + 1)],
           pos |-> Len(list) + 1, how |-> "created"]

\* bot.py:381-403 and 442-460: the attachments of the message are merged
\* into the resolved record r.
Materialize(r, kind, message, med, uuid, failing) ==
  LET h == _handle_attachments(message, r.st.data[ListOf(kind)][r.pos], med, uuid, failing)
  IN [st |-> [r.st EXCEPT !.data[ListOf(kind)][r.pos].attachments = h.atts],
      media |-> h.media, uuid |-> h.uuid, log |-> h.log]

\* Faulty variants of the loop body, used to test the properties below.
\* The id index is not consulted.
HandleMessageNoLookup(st, message, guild_name, category_name, channel_name, thread_name, med, uuid, failing) ==
  LET kind == Classify(message) IN
  IF kind = "none" THEN [st |-> st, media |-> med, uuid |-> uuid, log |-> <<>>]
  ELSE LET r0 == Resolve([st EXCEPT ![ListOf(kind)] = EmptyMap], kind, message, guild_name,
                         category_name, channel_name, thread_name)
           r == [r0 EXCEPT !.st[ListOf(kind)] = MapSet(st[ListOf(kind)], message.id, r0.pos)]
       IN Materialize(r, kind, message, med, uuid, failing)
\* A promoted record stays in the legacy index.
HandleMessageKeepingLegacyKey(st, message, guild_name, category_name, channel_name, thread_name, med, uuid, failing) ==
  LET kind == Classify(message) IN
  IF kind = "none" THEN [st |-> st, media |-> med, uuid |-> uuid, log |-> <<>>]
  ELSE LET r0 == Resolve(st, kind, message, guild_name, category_name, channel_name, thread_name)
           r == [r0 EXCEPT !.st[LegacyOf(kind)] = st[LegacyOf(kind)]]
       IN Materialize(r, kind, message, med, uuid, failing)

\* A record found by its message id takes the author and content of the
\* incoming message.
HandleMessageUpdatingOnHit(st, message, guild_name, category_name, channel_name, thread_name, med, uuid, failing) ==
  LET kind == Classify(message) IN
  IF kind = "none" THEN [st |-> st, media |-> med, uuid |-> uuid, log |-> <<>>]
  ELSE LET r0 == Resolve(st, kind, message, guild_name, category_name, channel_name, thread_name)
           r == IF r0.how = "hit"
                THEN [r0 EXCEPT !.st.data[ListOf(kind)][r0.pos].author = message.author,
                                !.st.data[ListOf(kind)][r0.pos].content = message.content]
                ELSE r0
       IN Materialize(r, kind, message, med, uuid, failing)

\* A message whose id is in the id index of the other kind is passed over.
HandleMessageSkippingOtherKind(st, message, guild_name, category_name, channel_name, thread_name, med, uuid, failing) ==
  LET kind == Classify(message) IN
  IF kind = "none" \/ message.id \in DOMAIN st[ListOf(IF kind = "survey" THEN "asset" ELSE "survey")]
  THEN [st |-> st, media |-> med, uuid |-> uuid, log |-> <<>>]
  ELSE Materialize(Resolve(st, kind, message, guild_name, category_name, channel_name,
                           thread_name),
                   kind, message, med, uuid, failing)

\* The body of the loop of _collect_history for one message (bot.py:340-460).
HandleMessage(st, message, guild_name, category_name, channel_name, thread_name, med, uuid, failing) ==
  LET kind == Classify(message) IN
  IF kind = "none" THEN [st |-> st, media |-> med, uuid |-> uuid, log |-> <<>>]
  ELSE Materialize(Resolve(st, kind, message, guild_name, category_name, channel_name,
                           thread_name),
                   kind, message, med, uuid, failing)

(***************************************************************************)
(* Initial states: the store a run may find.                               *)
(***************************************************************************)
\* A record as a version without message ids archived it.
LegacyEntry(kind, m) ==
  [NewEntry(kind, MessagePool[m], GuildName, CategoryOf[MessagePool[m].channel],
            InitialName[MessagePool[m].channel], MessagePool[m].thread)
     EXCEPT !.message_id = ""]
LegacyDocument(channel_id) ==
  [guild |-> GuildName, guild_id |-> "", category |-> CategoryOf["c1"],
   channel |-> InitialName["c1"], channel_id |-> channel_id,
   surveys |-> <<LegacyEntry("survey", "m1")>>, assets |-> <<LegacyEntry("asset", "m2")>>]
\* The document of c1 as an earlier run stored it, with message ids, while the
\* category of the channel had another name.
FormerCategory == "old"
RecategorisedDocument ==
  [guild |-> GuildName, guild_id |-> GuildId, category |-> FormerCategory,
   channel |-> InitialName["c1"], channel_id |-> "c1",
   surveys |-> <<NewEntry("survey", MessagePool["m1"], GuildName, FormerCategory, InitialName["c1"], MessagePool["m1"].thread)>>,
   assets |-> <<>>]
EmptyDisk == [p \in {} |-> CORRUPT]
InitialDisks ==
  {EmptyDisk} \cup
  {[p \in {_compute_store_path(GuildName, InitialName["c1"])} |-> LegacyDocument(cid)] :
     cid \in {"", "c1"}} \cup
  {[p \in {_compute_store_path(GuildName, InitialName["c1"])} |-> RecategorisedDocument]}

InitProgram ==
  /\ posted = InitialPosted
  /\ content = [m \in MessageIds |-> MessagePool[m].content]
  /\ chanName = InitialName
  /\ disk \in InitialDisks
  /\ media = {}
  /\ states = <<>> /\ store_states = <<>> /\ store_states_by_name = <<>>
  /\ pc = "idle" /\ ci = 0 /\ vi = 0 /\ mi = 0 /\ cur = None
  /\ nextUuid = 1
  /\ runs = 0 /\ events = 0
  /\ dl = <<>> /\ runDl = <<>> /\ failed = {} /\ runClean = FALSE
  /\ lastPosted = {} /\ basePosted = {}
  /\ unwritten = <<>>
  /\ base = EmptyDisk /\ baseMedia = {} /\ baseClean = FALSE /\ baseEnv = {} /\ envLog = {}
  /\ runLog = <<>>
Init == InitProgram /\ slugIn = <<>> /\ slugOut = <<>> /\ slugCalls = 0

(***************************************************************************)
(* SyncOrchestrator: on_ready (bot.py:506-573) step by step.               *)
(***************************************************************************)
Channel == Channels[ci]
Thread == Conversations(Channel)[vi]
\* The positions in Conversations(c) of the last live thread and of the last
\* archived public thread (of the channel itself when there is none).
LastLive(c) == 1 + Len(LiveThreads[c])
LastPublic(c) == LastLive(c) + Len(ArchivedPublic[c])

\* No on_ready is running: the process ended, or its on_ready raised.
Stopped == pc \in {"idle", "aborted"}
LogEntry(kind, c, thread, path) == [kind |-> kind, channel |-> c, thread |-> thread, path |-> path]

\* bot.py:510-512: load the store, then enter the loop over the channels.
StartRun ==
  /\ Stopped /\ runs < MaxRuns /\ ~LoadRaises
  /\ \E order \in Perms(DOMAIN disk) :
       LET R == _load_existing_store_files(order) IN
       /\ states' = R.states
       /\ store_states' = R.ss
       /\ store_states_by_name' = R.byname
  /\ pc' = "get_state" /\ ci' = 1 /\ vi' = 0 /\ mi' = 0 /\ cur' = None
  /\ runs' = runs + 1
  /\ dl' = <<>> /\ runDl' = <<>> /\ failed' = {} /\ runClean' = TRUE
  /\ lastPosted' = posted /\ basePosted' = lastPosted
  /\ unwritten' = (IF runLog # <<>> /\ runLog[Len(runLog)].kind = "stopped" THEN unwritten ELSE <<>>)
  /\ base' = disk /\ baseMedia' = media /\ baseClean' = runClean /\ baseEnv' = envLog
  /\ envLog' = {} /\ runLog' = <<>>
  /\ UNCHANGED <<srcVars, fsVars, nextUuid, events>>
  /\ UNCHANGED slugVars

\* A call of _collect_history starts on conversation v of the channel.
Enter(v) ==
  /\ pc' = "history" /\ vi' = v /\ mi' = 1
  /\ runLog' = Append(runLog, LogEntry("conv", Channel, Conversations(Channel)[v], <<>>))

\* bot.py:515-527: state = _get_state_for_channel(guild, channel, category_name),
\* then the history of the channel itself.
GetState ==
  /\ pc = "get_state"
  /\ LET R == _get_state_for_channel([states |-> states, ss |-> store_states,
                                      byname |-> store_states_by_name],
                                     Channel, chanName[Channel], CategoryOf[Channel]) IN
     /\ states' = R.states
     /\ store_states' = R.ss
     /\ store_states_by_name' = R.byname
     /\ cur' = DictGet(R.ss, Channel)
  /\ Enter(1)
  /\ dl' = <<>>
  /\ UNCHANGED <<srcVars, fsVars, ci, nextUuid, runs, events,
                 runDl, failed, runClean, base, baseMedia, baseClean, baseEnv, envLog, lastPosted, basePosted, unwritten>>
  /\ UNCHANGED slugVars

\* One iteration of `async for message in history_owner.history(...)`.
ProcessMessage ==
  /\ pc = "history" /\ mi <= Len(History(Channel, Thread))
  /\ LET message == Message(History(Channel, Thread)[mi]) IN
     \E failing \in SUBSET Range(message.attachments) :
       LET r == HandleMessage(states[cur], message, GuildName, CategoryOf[Channel],
                              chanName[Channel], Thread, media, nextUuid, failing)
           failures == {i \in 1..Len(r.log) : ~r.log[i].ok}
       IN /\ failing = {r.log[i].id : i \in failures}
          /\ events + Cardinality(failing) <= MaxEvents
          /\ states' = [states EXCEPT ![cur] = r.st]
          /\ media' = r.media
          /\ nextUuid' = r.uuid
          /\ dl' = r.log
          /\ runDl' = runDl \o r.log
          /\ events' = events + Cardinality(failing)
          /\ runClean' = (runClean /\ failing = {})
  /\ mi' = mi + 1
  /\ UNCHANGED <<srcVars, disk, store_states, store_states_by_name, pc, ci, vi, cur,
                 runs, failed, base, baseMedia, baseClean, baseEnv, envLog, lastPosted, basePosted, unwritten, runLog>>
  /\ UNCHANGED slugVars

\* Faulty variant: the document is written as soon as one conversation of the
\* channel is done, whatever threads remain.
LeaveConversationSkippingThreads ==
  /\ pc' = "write" /\ vi' = 0 /\ mi' = 0 /\ runLog' = runLog
  /\ dl' = <<>>
  /\ UNCHANGED <<srcVars, fsVars, memVars, ci, cur, nextUuid, runs,
                 runDl, base, baseMedia, baseClean, baseEnv, envLog, lastPosted, basePosted, unwritten>>

\* Leaving a conversation (bot.py:520-561): on to the next thread of the same
\* group, or to the listing of the next group, or to the write.
LeaveConversation ==
  /\ IF vi # LastLive(Channel) /\ vi # LastPublic(Channel) /\ vi < Len(Conversations(Channel))
     THEN Enter(vi + 1)
     ELSE /\ pc' = (IF vi = LastLive(Channel) THEN "archived_public"
                    ELSE IF vi = LastPublic(Channel) THEN "archived_private" ELSE "write")
          /\ vi' = 0 /\ mi' = 0 /\ runLog' = runLog
  /\ dl' = <<>>
  /\ UNCHANGED <<srcVars, fsVars, memVars, ci, cur, nextUuid, runs,
                 runDl, base, baseMedia, baseClean, baseEnv, envLog, lastPosted, basePosted, unwritten>>

\* The history is exhausted (bot.py:462).
EndConversation ==
  /\ pc = "history" /\ mi = Len(History(Channel, Thread)) + 1
  /\ LeaveConversation
  /\ UNCHANGED <<events, failed, runClean>>
  /\ UNCHANGED slugVars

HistoryErrors == {"Forbidden", "HTTPException", "Exception"}
\* The seconds the handler of the error sleeps (bot.py:463-470): the handler
\* of discord.Forbidden only prints, the other two await asyncio.sleep(1).
Cooldown(err) == IF err = "Forbidden" THEN 0 ELSE 1
\* Faulty variant: the error is not caught per conversation, and the loops
\* over the conversations and the channels are left.
HistoryFailsLeavingLoops ==
  /\ pc = "history" /\ events < MaxEvents
  /\ \E err \in HistoryErrors : failed' = failed \cup {<<Channel, Thread, err, Cooldown(err), mi - 1>>}
  /\ events' = events + 1
  /\ runClean' = FALSE
  /\ pc' = "flush" /\ ci' = 0 /\ vi' = 0 /\ mi' = 0
  /\ dl' = <<>>
  /\ UNCHANGED <<srcVars, fsVars, memVars, cur, nextUuid, runs,
                 runDl, base, baseMedia, baseClean, baseEnv, envLog, lastPosted, basePosted, unwritten, runLog>>
  /\ UNCHANGED slugVars

\* The history raises (bot.py:463-470); the conversation is abandoned.
HistoryFails ==
  /\ pc = "history" /\ events < MaxEvents
  /\ \E err \in HistoryErrors : failed' = failed \cup {<<Channel, Thread, err, Cooldown(err), mi - 1>>}
  /\ events' = events + 1
  /\ runClean' = FALSE
  /\ LeaveConversation
  /\ UNCHANGED slugVars

\* An exception leaves on_ready: nothing more of it runs, the process keeps
\* no state that a later run could use.
Raise(err) ==
  /\ pc' = "aborted" /\ ci' = 0 /\ vi' = 0 /\ mi' = 0 /\ cur' = None
  /\ states' = <<>> /\ store_states' = <<>> /\ store_states_by_name' = <<>>
  /\ runLog' = Append(runLog, LogEntry("raised", Channel, err, <<>>))
  /\ runClean' = FALSE
  /\ dl' = <<>>

\* bot.py:510: _load_existing_store_files() raises, and on_ready with it.
StartRunLoadRaises ==
  /\ Stopped /\ runs < MaxRuns /\ LoadRaises
  /\ runs' = runs + 1
  /\ pc' = "aborted" /\ ci' = 0 /\ vi' = 0 /\ mi' = 0 /\ cur' = None
  /\ states' = <<>> /\ store_states' = <<>> /\ store_states_by_name' = <<>>
  /\ dl' = <<>> /\ runDl' = <<>> /\ failed' = {} /\ runClean' = FALSE
  /\ lastPosted' = posted /\ basePosted' = lastPosted
  /\ unwritten' = (IF runLog # <<>> /\ runLog[Len(runLog)].kind = "stopped" THEN unwritten ELSE <<>>)
  /\ base' = disk /\ baseMedia' = media /\ baseClean' = runClean /\ baseEnv' = envLog
  /\ envLog' = {} /\ runLog' = <<LogEntry("load_raised", "", "UnicodeDecodeError", <<>>)>>
  /\ UNCHANGED <<srcVars, fsVars, nextUuid, events>>
  /\ UNCHANGED slugVars

\* What the listing of archived threads may raise.
ListingErrors == {"Forbidden", "HTTPException"}

\* bot.py:540: channel.archived_threads(limit=None, private=False) answers.
ListArchivedPublic ==
  /\ pc = "archived_public"
  /\ IF ArchivedPublic[Channel] # <<>> THEN Enter(LastLive(Channel) + 1)
     ELSE pc' = "archived_private" /\ vi' = 0 /\ mi' = 0 /\ runLog' = runLog
  /\ dl' = <<>>
  /\ UNCHANGED <<srcVars, fsVars, memVars, ci, cur, nextUuid, runs, events,
                 runDl, failed, runClean, base, baseMedia, baseClean, baseEnv, envLog, lastPosted, basePosted, unwritten>>
  /\ UNCHANGED slugVars

\* bot.py:540: the listing raises; no handler encloses it in on_ready.
ListArchivedPublicFails ==
  /\ pc = "archived_public" /\ events < MaxEvents
  /\ \E err \in ListingErrors : Raise(err)
  /\ events' = events + 1
  /\ UNCHANGED <<srcVars, fsVars, nextUuid, runs,
                 runDl, failed, base, baseMedia, baseClean, baseEnv, envLog, lastPosted, basePosted, unwritten>>
  /\ UNCHANGED slugVars

\* bot.py:551-552: channel.archived_threads(limit=None, private=True) answers.
ListArchivedPrivate ==
  /\ pc = "archived_private"
  /\ IF ArchivedPrivate[Channel] # <<>> THEN Enter(LastPublic(Channel) + 1)
     ELSE pc' = "write" /\ vi' = 0 /\ mi' = 0 /\ runLog' = runLog
  /\ dl' = <<>>
  /\ UNCHANGED <<srcVars, fsVars, memVars, ci, cur, nextUuid, runs, events,
                 runDl, failed, runClean, base, baseMedia, baseClean, baseEnv, envLog, lastPosted, basePosted, unwritten>>
  /\ UNCHANGED slugVars

\* bot.py:551-563: the listing raises; discord.Forbidden is caught and the
\* private threads are skipped, anything else leaves on_ready.
ListArchivedPrivateFails ==
  /\ pc = "archived_private" /\ events < MaxEvents
  /\ \E err \in ListingErrors :
       IF err = "Forbidden"
       THEN /\ pc' = "write" /\ vi' = 0 /\ mi' = 0 /\ dl' = <<>>
            /\ runLog' = Append(runLog, LogEntry("denied", Channel, "", <<>>))
            /\ runClean' = FALSE
            /\ UNCHANGED <<memVars, ci, cur>>
       ELSE Raise(err)
  /\ events' = events + 1
  /\ UNCHANGED <<srcVars, fsVars, nextUuid, runs,
                 runDl, failed, base, baseMedia, baseClean, baseEnv, envLog, lastPosted, basePosted, unwritten>>
  /\ UNCHANGED slugVars

\* Faulty variant: the document of a channel with a failed conversation is
\* not written when the channel is done.
WriteStateSkippingFailed ==
  /\ pc = "write"
  /\ disk' = (IF \E f \in failed : f[1] = Channel THEN disk ELSE _write_store_state(disk, states[cur]))
  /\ runLog' = Append(runLog, LogEntry("write", Channel, "", states[cur].path))
  /\ IF ci < Len(Channels) THEN pc' = "get_state" /\ ci' = ci + 1 ELSE pc' = "flush" /\ ci' = 0
  /\ dl' = <<>>
  /\ UNCHANGED <<srcVars, media, memVars, vi, mi, cur, nextUuid, runs, events,
                 runDl, failed, runClean, base, baseMedia, baseClean, baseEnv, envLog, lastPosted, basePosted, unwritten>>
  /\ UNCHANGED slugVars

\* bot.py:565: _write_store_state(state), then the next channel.
WriteState ==
  /\ pc = "write"
  /\ disk' = _write_store_state(disk, states[cur])
  /\ runLog' = Append(runLog, LogEntry("write", Channel, "", states[cur].path))
  /\ IF ci < Len(Channels) THEN pc' = "get_state" /\ ci' = ci + 1 ELSE pc' = "flush" /\ ci' = 0
  /\ dl' = <<>>
  /\ UNCHANGED <<srcVars, media, memVars, vi, mi, cur, nextUuid, runs, events,
                 runDl, failed, runClean, base, baseMedia, baseClean, baseEnv, envLog, lastPosted, basePosted, unwritten>>
  /\ UNCHANGED slugVars

\* The process stops (is killed, loses power) inside the write_text of
\* _write_store_state (bot.py:253), which truncates the file and then writes
\* the text: the file is left empty or cut.  In the final flush the documents
\* before the k-th are written.
CorruptKinds == {CORRUPT, UNDECODABLE}
StopInPersist ==
  /\ pc \in {"write", "flush"} /\ events < MaxEvents
  /\ \E left \in CorruptKinds :
       IF pc = "write"
       THEN /\ disk' = [p \in (DOMAIN disk) \cup {states[cur].path} |->
                         IF p = states[cur].path THEN left ELSE disk[p]]
            /\ unwritten' = <<[data |-> states[cur].data, clean |-> runClean]>>
       ELSE \E k \in 1..Len(_iter_states) :
              LET d == WriteAll(disk, SubSeq(_iter_states, 1, k - 1))
                  target == states[_iter_states[k]].path
              IN /\ disk' = [p \in (DOMAIN d) \cup {target} |-> IF p = target THEN left ELSE d[p]]
                 /\ unwritten' = <<[data |-> states[_iter_states[k]].data, clean |-> runClean]>>
  /\ events' = events + 1
  /\ pc' = "aborted" /\ ci' = 0 /\ vi' = 0 /\ mi' = 0 /\ cur' = None
  /\ states' = <<>> /\ store_states' = <<>> /\ store_states_by_name' = <<>>
  /\ runLog' = Append(runLog, LogEntry("stopped", "", "", <<>>))
  /\ runClean' = FALSE
  /\ dl' = <<>>
  /\ UNCHANGED <<srcVars, media, nextUuid, runs,
                 runDl, failed, base, baseMedia, baseClean, baseEnv, envLog, lastPosted, basePosted>>
  /\ UNCHANGED slugVars

\* bot.py:567-573: the final flush, then the process ends.
Flush ==
  /\ pc = "flush"
  /\ disk' = WriteAll(disk, _iter_states)
  /\ runLog' = runLog \o [i \in 1..Len(_iter_states) |->
                            LogEntry("flush", "", "", states[_iter_states[i]].path)]
  /\ states' = <<>> /\ store_states' = <<>> /\ store_states_by_name' = <<>>
  /\ pc' = "idle" /\ cur' = None
  /\ dl' = <<>>
  /\ UNCHANGED <<srcVars, media, ci, vi, mi, nextUuid, runs, events,
                 runDl, failed, runClean, base, baseMedia, baseClean, baseEnv, envLog, lastPosted, basePosted, unwritten>>
  /\ UNCHANGED slugVars

(***************************************************************************)
(* The environment, between runs: the source grows, edits and renames, and *)
(* local media files may disappear.                                        *)
(***************************************************************************)
EnvStep(what) ==
  /\ Stopped /\ events < MaxEvents /\ runs < MaxRuns
  /\ events' = events + 1
  /\ envLog' = envLog \cup {what}
  /\ UNCHANGED <<disk, memVars, posVars, nextUuid, runs,
                 dl, runDl, failed, runClean, base, baseMedia, baseClean, baseEnv, lastPosted, basePosted, unwritten, runLog>>

PostMessage ==
  /\ \E m \in MessageIds \ posted : posted' = posted \cup {m}
  /\ EnvStep("post")
  /\ UNCHANGED <<content, chanName, media>>
  /\ UNCHANGED slugVars

EditMessage ==
  /\ \E m \in posted \cap Editable, c \in EditedContents : c # content[m] /\ content' = [content EXCEPT ![m] = c]
  /\ EnvStep("edit")
  /\ UNCHANGED <<posted, chanName, media>>
  /\ UNCHANGED slugVars

RenameChannel ==
  /\ \E c \in ChannelIds, n \in NamePool \ {chanName[x] : x \in ChannelIds} :
       chanName' = [chanName EXCEPT ![c] = n]
  /\ EnvStep("rename")
  /\ UNCHANGED <<posted, content, media>>
  /\ UNCHANGED slugVars

ClearMedia ==
  /\ \E f \in media : media' = media \ {f}
  /\ EnvStep("clear")
  /\ UNCHANGED <<posted, content, chanName>>
  /\ UNCHANGED slugVars

Next ==
  \/ StartRun \/ StartRunLoadRaises \/ GetState \/ ProcessMessage \/ EndConversation \/ HistoryFails
  \/ ListArchivedPublic \/ ListArchivedPublicFails
  \/ ListArchivedPrivate \/ ListArchivedPrivateFails
  \/ WriteState \/ Flush \/ StopInPersist
  \/ PostMessage \/ EditMessage \/ RenameChannel \/ ClearMedia

Spec == Init /\ [][Next]_vars

(***************************************************************************)
(* _safe_path_component called on its own, on every short string over a    *)
(* small alphabet and on strings of 300 characters.                        *)
(***************************************************************************)
SlugAlphabet ==
  {"a", "B", "7", " ", "-", "!", "U+00E9", "U+2260", "U+00A8", "U+FF21", "U+3000",
   "U+30FC", "U+6F22", "U+30C4", "U+30C3", "U+1F600", "U+E000"}
LongInputs ==
  {[i \in 1..300 |-> "a"], [i \in 1..300 |-> IF i % 2 = 0 THEN "-" ELSE "B"],
   [i \in 1..300 |-> "!"], [i \in 1..300 |-> "U+1F600"]}
SlugInputs == UNION {[1..k -> SlugAlphabet] : k \in 0..MaxSlugLen} \cup LongInputs
SlugInit ==
  /\ InitProgram /\ disk = EmptyDisk
  /\ slugIn \in SlugInputs /\ slugOut = <<>> /\ slugCalls = 0
SlugCall ==
  /\ slugCalls < MaxSlugCalls
  /\ slugOut' = _safe_path_component(slugIn)
  /\ slugCalls' = slugCalls + 1
  /\ UNCHANGED <<slugIn, srcVars, fsVars, memVars, posVars, nextUuid, runs, events, obsVars>>
SlugNext == SlugCall
SlugSpec == SlugInit /\ [][SlugNext]_vars

(***************************************************************************)
(* _safe_path_component called on two different names, as                  *)
(* _compute_store_path does for two channels of a guild: slugIn holds the  *)
(* two names and slugOut the two values returned.                          *)
(***************************************************************************)
PairAlphabet == {"a", "A", "b", " ", "-", "_", "!"}
PairNames == UNION {[1..k -> PairAlphabet] : k \in 1..MaxPairLen}
SlugPairInit ==
  /\ InitProgram /\ disk = EmptyDisk
  /\ slugIn \in {<<n1, n2>> : n1, n2 \in PairNames} /\ slugIn[1] # slugIn[2]
  /\ slugOut = <<>> /\ slugCalls = 0
SlugPairCall ==
  /\ slugCalls = 0
  /\ slugOut' = <<_safe_path_component(slugIn[1]), _safe_path_component(slugIn[2])>>
  /\ slugCalls' = 1
  /\ UNCHANGED <<slugIn, srcVars, fsVars, memVars, posVars, nextUuid, runs, events, obsVars>>
SlugPairNext == SlugPairCall
SlugPairSpec == SlugPairInit /\ [][SlugPairNext]_vars

(***************************************************************************)
(* Properties.                                                             *)
(***************************************************************************)
\* A run has just ended: nothing has changed since.
RunEnded == pc = "idle" /\ runs >= 1 /\ envLog = {}
\* The last run was a second run over an unchanged source: the run before it
\* met no failure, and nothing changed between the two.
SecondRunUnchanged == RunEnded /\ runs >= 2 /\ baseClean /\ baseEnv = {}

\* C1: Idempotence.  When a run ends that followed a run without failures
\* over an unchanged source with the media files still present, the store
\* holds exactly the documents the earlier run left (no record or attachment
\* reference added or changed) and the run attempted no download.
C1_Idempotence == SecondRunUnchanged => (disk = base /\ runDl = <<>>)

Lists == {"surveys", "assets"}
Kinds == {"survey", "asset"}
ChannelPath(c) == _compute_store_path(GuildName, chanName[c])
Documents == {states[h].data : h \in 1..Len(states)}
              \cup {disk[p] : p \in {q \in DOMAIN disk : ~IsCorrupt(disk[q])}}
HasRecord(list, id) == \E i \in 1..Len(list) : list[i].message_id = id

\* The step is one iteration of the message loop, on message CurrentMessage.
MessageStep == pc = "history" /\ pc' = "history" /\ vi' = vi /\ mi' = mi + 1
CurrentMessage == Message(History(Channel, Thread)[mi])
CurrentKey ==
  _legacy_key_from_values(GuildName, CategoryOf[Channel], chanName[Channel], Thread,
                          CurrentMessage.author, CurrentMessage.created_at,
                          CurrentMessage.content)

\* C2: in every reachable state, in memory and in the store, no two survey
\* records of one document share a non-empty messageId, and no two asset
\* records do.
C2_UniqueMessageIds ==
  \A d \in Documents : \A l \in Lists : \A i, j \in 1..Len(d[l]) :
    (i # j /\ d[l][i].message_id # "") => d[l][i].message_id # d[l][j].message_id
\* A second run has gone through messages the store already held by id.
C2_Witness ==
  /\ runs = 2 /\ pc = "write" /\ Channel = "c1"
  /\ ChannelPath("c1") \in DOMAIN base /\ ~IsCorrupt(base[ChannelPath("c1")])
  /\ HasRecord(base[ChannelPath("c1")].surveys, "m1")
  /\ HasRecord(states[cur].data.surveys, "m1")
  /\ HasRecord(states[cur].data.assets, "m2")

\* C3: a message step whose message has an id not yet indexed and a composite
\* key held by the legacy index mutates the legacy record in place: the list
\* keeps its length, the record at that position gets the message's id, the
\* id index maps the id to that position, and the legacy index drops the key.
C3_LegacyPromotion ==
  [][\A k \in Kinds :
       LET l == ListOf(k)
           st == states[cur]
       IN (/\ MessageStep
           /\ Classify(CurrentMessage) = k
           /\ CurrentMessage.id \notin DOMAIN st[l]
           /\ CurrentKey \in DOMAIN st[LegacyOf(k)])
          => LET old == st[LegacyOf(k)][CurrentKey]
                 st2 == states'[cur]
             IN /\ Len(st2.data[l]) = Len(st.data[l])
                /\ st.data[l][old].message_id = ""
                /\ st2.data[l][old].message_id = CurrentMessage.id
                /\ \A i \in 1..Len(st.data[l]) : i # old => st2.data[l][i] = st.data[l][i]
                /\ CurrentMessage.id \in DOMAIN st2[l] /\ st2[l][CurrentMessage.id] = old
                /\ CurrentKey \notin DOMAIN st2[LegacyOf(k)]]_vars
\* The legacy survey record of m1 has just been promoted.
C3_Witness ==
  /\ pc = "history" /\ cur # None /\ Channel = "c1" /\ Thread = "" /\ mi = 2
  /\ LET p == states[cur].path IN
     /\ p \in DOMAIN base /\ Len(base[p].surveys) = 1 /\ base[p].surveys[1].message_id = ""
     /\ Len(states[cur].data.surveys) = 1
     /\ states[cur].data.surveys[1].message_id = "m1"
     /\ states[cur].survey_legacy = EmptyMap

\* A record backs a message when it carries the message's id, or is a legacy
\* record (no id) of that author, time and thread.
Backs(r, m) ==
  \/ r.message_id = m.id
  \/ /\ r.message_id = ""
     /\ r.author = m.author /\ r.created_at = _isoformat(m.created_at) /\ r.thread = m.thread
Qualifying(c, k) == {m \in posted : MessagePool[m].channel = c /\ Classify(Message(m)) = k}
HadLegacy == \E p \in DOMAIN base : ~IsCorrupt(base[p]) /\
               \E l \in Lists : \E i \in 1..Len(base[p][l]) : base[p][l][i].message_id = ""

\* C4: when a run without failures ends that found legacy records in the
\* store, every qualifying message of every channel is backed by exactly one
\* record of its kind in the channel's document, and every legacy record the
\* run found is still in that document at its position.
C4_LegacyReconciled ==
  (RunEnded /\ runClean /\ HadLegacy) =>
    /\ \A c \in ChannelIds : \A k \in Kinds :
         /\ ChannelPath(c) \in DOMAIN disk
         /\ \A m \in Qualifying(c, k) :
              Cardinality({i \in 1..Len(disk[ChannelPath(c)][ListOf(k)]) :
                             Backs(disk[ChannelPath(c)][ListOf(k)][i], Message(m))}) = 1
    /\ \A p \in {q \in DOMAIN base : ~IsCorrupt(base[q])} : \A l \in Lists :
         \A i \in 1..Len(base[p][l]) :
           base[p][l][i].message_id = "" =>
             \E q \in {ChannelPath(x) : x \in ChannelIds} \cap DOMAIN disk :
               /\ i <= Len(disk[q][l])
               /\ disk[q][l][i].author = base[p][l][i].author
               /\ disk[q][l][i].created_at = base[p][l][i].created_at

IsPrefix(s, t) == Len(s) <= Len(t) /\ \A i \in 1..Len(s) : t[i] = s[i]
\* The last run followed a run without failures, met none itself, and between
\* the two the source only gained messages.
IncrementalRun ==
  RunEnded /\ runs >= 2 /\ baseClean /\ runClean /\ baseEnv = {"post"}

\* C5: when such a run ends, every document holds the records it held before
\* the run, unchanged and at their positions, followed by exactly one record
\* for each new qualifying message of its channel and nothing else.
C5_IncrementalDelta ==
  IncrementalRun =>
    \A c \in ChannelIds : \A k \in Kinds :
      LET p == ChannelPath(c)
          l == ListOf(k)
      IN /\ p \in DOMAIN base /\ p \in DOMAIN disk
         /\ IsPrefix(base[p][l], disk[p][l])
         /\ LET added == SubSeq(disk[p][l], Len(base[p][l]) + 1, Len(disk[p][l]))
                fresh == Qualifying(c, k) \ basePosted
            IN /\ {added[i].message_id : i \in 1..Len(added)} = fresh
               /\ Len(added) = Cardinality(fresh)

\* A record of document d, list l, with message id `id` holds a reference to
\* the remote attachment `aid` stored under the name `file`.
HoldsRef(d, l, id, aid, file) ==
  \E i \in 1..Len(d[l]) :
    /\ d[l][i].message_id = id
    /\ \E j \in 1..Len(d[l][i].attachments) :
         /\ d[l][i].attachments[j].id = aid
         /\ d[l][i].attachments[j].stored_filename = file

\* C6: Attachment stability.  When a run ends, every attachment reference
\* with a stored file name that a record of a document held when the run
\* before it ended is still held, under the same name, by the record with
\* that message id in that document, and the run downloaded nothing to a
\* name whose file was present when it started.
C6_AttachmentStability ==
  (RunEnded /\ runs >= 2) =>
    /\ \A p \in {q \in DOMAIN base \cap DOMAIN disk : ~IsCorrupt(base[q]) /\ ~IsCorrupt(disk[q])} :
         \A l \in Lists : \A i \in 1..Len(base[p][l]) :
           LET r == base[p][l][i] IN
           \A j \in 1..Len(r.attachments) :
             (r.message_id # "" /\ r.attachments[j].stored_filename # NoName) =>
               HoldsRef(disk[p], l, r.message_id, r.attachments[j].id,
                        r.attachments[j].stored_filename)
    /\ \A n \in 1..Len(runDl) : runDl[n].file \notin baseMedia

\* Within a run the name is stable: a reference of a record in memory that
\* has a stored file name keeps it, at its place, through every step, and no
\* message step downloads to a name whose file exists.
StoredNameKeptInMemory ==
  [][/\ \A h \in (1..Len(states)) \cap (1..Len(states')) : \A l \in Lists :
          \A i \in 1..Len(states[h].data[l]) :
            LET atts == states[h].data[l][i].attachments IN
            \A j \in 1..Len(atts) :
              atts[j].stored_filename # NoName =>
                /\ i <= Len(states'[h].data[l])
                /\ j <= Len(states'[h].data[l][i].attachments)
                /\ states'[h].data[l][i].attachments[j] = atts[j]
     /\ (pc = "history" /\ mi' = mi + 1) =>
          \A n \in 1..Len(dl') : dl'[n].file \notin media]_vars

\* The position of the record the message resolves to, if the store knows it.
KnownPos(st, k) ==
  IF CurrentMessage.id \in DOMAIN st[ListOf(k)] THEN st[ListOf(k)][CurrentMessage.id]
  ELSE IF CurrentKey \in DOMAIN st[LegacyOf(k)] THEN st[LegacyOf(k)][CurrentKey]
  ELSE None
RefsOf(atts, id) == {j \in 1..Len(atts) : atts[j].id = id}

\* C7: Attachment repair.  In a message step, for every attachment of the
\* message whose remote id is already in the record with a stored name whose
\* local file is missing, a download to that same name is attempted (and the
\* file is there afterwards unless the download failed), the reference is
\* unchanged and no second reference for that remote id is added.
C7_AttachmentRepair ==
  [][\A k \in Kinds :
       (pc = "history" /\ mi' = mi + 1 /\ Classify(CurrentMessage) = k
          /\ KnownPos(states[cur], k) # None) =>
         LET pos == KnownPos(states[cur], k)
             atts == states[cur].data[ListOf(k)][pos].attachments
             atts2 == states'[cur].data[ListOf(k)][pos].attachments
         IN \A j \in 1..Len(atts) :
              (/\ \E n \in 1..Len(CurrentMessage.attachments) :
                     CurrentMessage.attachments[n] = atts[j].id
               /\ atts[j].stored_filename # NoName
               /\ atts[j].stored_filename \notin media) =>
                /\ \E n \in 1..Len(dl') :
                     /\ dl'[n].id = atts[j].id /\ dl'[n].file = atts[j].stored_filename
                     /\ dl'[n].ok => atts[j].stored_filename \in media'
                /\ atts2[j] = atts[j]
                /\ RefsOf(atts2, atts[j].id) = {j}]_vars
\* A reference found in the record was downloaded again, successfully.
C7_Witness ==
  /\ pc = "history"
  /\ \E n \in 1..Len(dl) : dl[n].repair /\ dl[n].ok /\ dl[n].file \in media
                           /\ dl[n].file \notin baseMedia /\ dl[n].file < nextUuid
                           /\ \E p \in DOMAIN base : \E l \in Lists : \E i \in 1..Len(base[p][l]) :
                                \E j \in 1..Len(base[p][l][i].attachments) :
                                  base[p][l][i].attachments[j].stored_filename = dl[n].file

\* C8: Attachment failure isolation.  In a message step in which a download
\* fails, the record of the message is kept and indexed, every other
\* attachment of the message has a reference in it whose file is present,
\* and the traversal goes on to the next message of the same conversation.
C8_DownloadFailureIsolated ==
  [][(\E n \in 1..Len(dl') : ~dl'[n].ok) =>
       LET m == CurrentMessage
           l == ListOf(Classify(m))
           st2 == states'[cur]
           bad == {dl'[n].id : n \in {x \in 1..Len(dl') : ~dl'[x].ok}}
       IN /\ m.id \in DOMAIN st2[l]
          /\ st2.data[l][st2[l][m.id]].message_id = m.id
          /\ \A n \in 1..Len(m.attachments) :
               m.attachments[n] \notin bad =>
                 \E j \in 1..Len(st2.data[l][st2[l][m.id]].attachments) :
                   LET a == st2.data[l][st2[l][m.id]].attachments[j] IN
                   a.id = m.attachments[n] /\ a.stored_filename \in media'
          /\ pc' = "history" /\ ci' = ci /\ vi' = vi /\ mi' = mi + 1
          /\ failed' = failed /\ cur' = cur]_vars
\* The first attachment of a message failed and the second was downloaded.
C8_Witness ==
  /\ pc = "history" /\ Len(dl) = 2 /\ ~dl[1].ok /\ dl[2].ok
  /\ dl[2].file \in media
  /\ \E i \in 1..Len(states[cur].data.surveys) :
       LET r == states[cur].data.surveys[i] IN
       r.message_id = "m1" /\ Len(r.attachments) = 1 /\ r.attachments[1].id = dl[2].id

\* C9: Classification.  A message step on a message whose content contains
\* the marker leaves a survey record with the message's id and the asset
\* list unchanged, whether or not the message has attachments; otherwise, if
\* the message has an attachment, it leaves an asset record with its id and
\* the survey list unchanged; otherwise no document changes.
C9_Classification ==
  [][(pc = "history" /\ mi' = mi + 1) =>
       LET m == CurrentMessage
           st == states[cur]
           st2 == states'[cur]
       IN IF Contains(m.content, KEYWORD)
          THEN HasRecord(st2.data.surveys, m.id) /\ st2.data.assets = st.data.assets
          ELSE IF m.attachments # <<>>
          THEN HasRecord(st2.data.assets, m.id) /\ st2.data.surveys = st.data.surveys
          ELSE states' = states]_vars
\* A run archived a marked message with attachments and one without as
\* surveys, an unmarked message with an attachment as an asset, and an
\* unmarked message without attachments as neither.
C9_Witness ==
  /\ RunEnded
  /\ ChannelPath("c1") \in DOMAIN disk /\ ChannelPath("c2") \in DOMAIN disk
  /\ content = [m \in MessageIds |-> MessagePool[m].content]
  /\ LET d1 == disk[ChannelPath("c1")]
         d2 == disk[ChannelPath("c2")]
     IN /\ HasRecord(d1.surveys, "m1") /\ ~HasRecord(d1.assets, "m1")
        /\ HasRecord(d2.surveys, "m4") /\ ~HasRecord(d2.assets, "m4")
        /\ HasRecord(d1.assets, "m2") /\ ~HasRecord(d1.surveys, "m2")
        /\ ~HasRecord(d1.assets, "m3") /\ ~HasRecord(d1.surveys, "m3")

FailedConversations == {<<f[1], f[2]>> : f \in failed}
\* C10: Traversal isolation.  When a run ends in which the traversal of a
\* conversation raised an access error, every qualifying message of every
\* conversation whose traversal did not fail, those before and those after
\* the failed one, has a record in the persisted document of its channel.
C10_TraversalIsolation ==
  (RunEnded /\ \E f \in failed : f[3] = "Forbidden") =>
    \A m \in posted : \A k \in Kinds :
      (/\ Classify(Message(m)) = k
       /\ <<MessagePool[m].channel, MessagePool[m].thread>> \notin FailedConversations) =>
        /\ ChannelPath(MessagePool[m].channel) \in DOMAIN disk
        /\ HasRecord(disk[ChannelPath(MessagePool[m].channel)][ListOf(k)], m)
\* The thread of c1 was denied after m1 was collected; c2 was still traversed.
C10_Witness ==
  /\ RunEnded /\ runs = 1 /\ failed = {<<"c1", "t1", "Forbidden", 0, 0>>}
  /\ base = EmptyDisk
  /\ HasRecord(disk[ChannelPath("c1")].surveys, "m1")
  /\ ~HasRecord(disk[ChannelPath("c1")].assets, "m2")
  /\ HasRecord(disk[ChannelPath("c2")].surveys, "m4")

\* The entries of one kind in the log of the current or last run.
Logged(kind) == {i \in 1..Len(runLog) : runLog[i].kind = kind}

\* C11: Run completion.  No failure met after startup, while a message, an
\* attachment or a conversation is processed or the threads of a channel
\* are listed, makes on_ready end before its final step: in no state has an
\* exception left on_ready after the traversal began.
C11_RunCompletion == Logged("raised") = {}

\* The run has started a traversal of conversation v of channel c.
Traversed(log, c, v) ==
  \E i \in 1..Len(log) :
    log[i].kind = "conv" /\ log[i].channel = c /\ log[i].thread = Conversations(c)[v]
\* The listing of the private threads of channel c was denied.
Denied(log, c) == \E i \in 1..Len(log) : log[i].kind = "denied" /\ log[i].channel = c

\* C12: Persist timing.  A store file changes only in the write that ends a
\* channel and in the final flush; the write of a channel is reached only
\* once the channel itself, its live threads, its archived public threads
\* and (unless their listing was denied) its archived private threads have
\* been traversed, and it writes the channel's document at its path; the
\* final flush writes, once more, every document a channel of the run used.
C12_PersistTiming ==
  [][/\ (disk' # disk) => pc \in {"write", "flush"}
     /\ (pc # "write" /\ pc' = "write") =>
          /\ pc \in {"history", "archived_private"}
          /\ \A v \in 1..Len(Conversations(Channel)) :
               (v <= LastPublic(Channel) \/ ~Denied(runLog', Channel)) =>
                 Traversed(runLog', Channel, v)
     /\ (pc = "write" /\ pc' \in {"get_state", "flush"}) =>
          /\ cur = DictGet(store_states, Channel)
          /\ disk'[states[cur].path] = states[cur].data
          /\ runLog' = Append(runLog, LogEntry("write", Channel, "", states[cur].path))
     /\ (pc = "flush" /\ pc' = "idle") =>
          \A c \in ChannelIds :
            LET h == DictGet(store_states, c) IN
            /\ h # None
            /\ disk'[states[h].path] = states[h].data
            /\ \E i, j \in 1..Len(runLog') :
                 /\ i < j
                 /\ runLog'[i].kind = "write" /\ runLog'[i].channel = c
                 /\ runLog'[j].kind = "flush" /\ runLog'[j].path = states[h].path]_vars
\* A run ended that traversed c1 and its live thread, c2 and its archived
\* public and private threads, wrote each document after the last of them
\* and wrote both again in the final flush.
C12_Witness ==
  /\ RunEnded /\ runClean
  /\ \E w1, w2, f1, f2 \in 1..Len(runLog) :
       /\ runLog[w1] = LogEntry("write", "c1", "", ChannelPath("c1"))
       /\ runLog[w2] = LogEntry("write", "c2", "", ChannelPath("c2"))
       /\ runLog[w1 - 1] = LogEntry("conv", "c1", "t1", <<>>)
       /\ runLog[w2 - 1] = LogEntry("conv", "c2", "t3", <<>>)
       /\ w2 < f1 /\ w2 < f2
       /\ runLog[f1] = LogEntry("flush", "", "", ChannelPath("c1"))
       /\ runLog[f2] = LogEntry("flush", "", "", ChannelPath("c2"))
  /\ disk[ChannelPath("c1")].channel_id = "c1" /\ disk[ChannelPath("c2")].channel_id = "c2"

\* C13: Atomic persist.  Every step, one in which the process stops inside a
\* persist included, leaves each store file either as it was or holding the
\* complete document of a state of the process: never a partial or empty
\* file.
C13_AtomicPersist ==
  [][\A p \in DOMAIN disk' :
       \/ p \in DOMAIN disk /\ disk'[p] = disk[p]
       \/ \E h \in 1..Len(states) : states[h].path = p /\ disk'[p] = states[h].data]_vars

\* The store files that hold no complete document, and the others.
CorruptFiles == {p \in DOMAIN disk : IsCorrupt(disk[p])}
SoundFiles == (DOMAIN disk) \ CorruptFiles
\* A sound file holds a document of channel c, by id or by name.
HoldsChannel(p, c) ==
  disk[p].channel_id = c \/ <<disk[p].guild, disk[p].channel>> = <<GuildName, chanName[c]>>

\* C17: Corrupt persisted state.  A run that finds a file that fails to
\* parse is not aborted by it: the load ends, it has loaded exactly the
\* other files, and a channel whose file was skipped, when no other file
\* holds a document of it, starts from a fresh empty document.
C17_CorruptFileSkipped ==
  [][/\ (Stopped /\ runs' = runs + 1 /\ CorruptFiles # {}) =>
          /\ pc' = "get_state"
          /\ {states'[h].path : h \in 1..Len(states')} = SoundFiles
          /\ \A h \in 1..Len(states') : \A l \in {"surveys", "assets"} :
               states'[h].data[l] = disk[states'[h].path][l]
     /\ (pc = "get_state" /\ pc' = "history"
           /\ _compute_store_path(GuildName, chanName[Channel]) \in CorruptFiles
           /\ \A p \in SoundFiles : ~HoldsChannel(p, Channel)) =>
          /\ states'[cur'].data.surveys = <<>>
          /\ states'[cur'].data.assets = <<>>
          /\ states'[cur'].data.channel_id = Channel]_vars

\* The step is the lookup of the document of channel Channel.
LookupStep == pc = "get_state" /\ pc' = "history"
RegisteredById == DictGet(store_states, Channel)
RegisteredByName == DictGet(store_states_by_name, <<GuildName, chanName[Channel]>>)

\* C14: findOrCreate lookup order.  The lookup of a channel returns the
\* document registered under its channel id if there is one; otherwise the
\* one registered under its guild and channel name, which is then registered
\* under the channel id; and only when there is neither, a new document with
\* no records.  A document that was found keeps its records.
C14_LookupOrder ==
  [][LookupStep =>
       /\ DictGet(store_states', Channel) = cur'
       /\ IF RegisteredById # None
          THEN cur' = RegisteredById /\ Len(states') = Len(states)
          ELSE IF RegisteredByName # None
          THEN cur' = RegisteredByName /\ Len(states') = Len(states)
          ELSE /\ cur' = Len(states) + 1 /\ Len(states') = Len(states) + 1
               /\ states'[cur'].data.surveys = <<>> /\ states'[cur'].data.assets = <<>>
       /\ (RegisteredById # None \/ RegisteredByName # None) =>
            /\ states'[cur'].data.surveys = states[cur'].data.surveys
            /\ states'[cur'].data.assets = states[cur'].data.assets]_vars
\* The document of c1, stored without a channel id, was found by name and is
\* now registered under the id; the new channel c2 got a new document.
C14_Witness ==
  /\ pc = "history" /\ Channel = "c2" /\ vi = 1 /\ mi = 1
  /\ ChannelPath("c1") \in DOMAIN base /\ ~IsCorrupt(base[ChannelPath("c1")])
  /\ base[ChannelPath("c1")].channel_id = ""
  /\ Len(states) = 2
  /\ DictGet(store_states, "c1") = 1 /\ DictGet(store_states, "c2") = 2
  /\ states[1].data.channel_id = "c1" /\ Len(states[1].data.surveys) >= 1
  /\ states[2].data.surveys = <<>> /\ states[2].data.assets = <<>>

\* The step writes the document of channel Channel after its traversal.
WriteStep == pc = "write" /\ pc' \in {"get_state", "flush"}
\* The scope fields of document d are the current values of channel c.
ScopeIsCurrent(d, c) ==
  /\ d.guild = GuildName /\ d.category = CategoryOf[c]
  /\ d.channel = chanName[c] /\ d.channel_id = c

\* C15: Rename handling.  The lookup of a channel whose document is registered
\* under its channel id, whatever guild, category and channel name the
\* document carries, returns that document with the records it held, with
\* guild, category, channel and channel id equal to the current values and
\* with the path derived from the current guild and channel name; and the
\* write that follows the traversal stores the document, with these scope
\* fields, in the file at that path.
C15_RenameHandling ==
  [][/\ (LookupStep /\ RegisteredById # None) =>
          /\ cur' = RegisteredById
          /\ states'[cur'].data.surveys = states[cur'].data.surveys
          /\ states'[cur'].data.assets = states[cur'].data.assets
          /\ ScopeIsCurrent(states'[cur'].data, Channel)
          /\ states'[cur'].path = ChannelPath(Channel)
     /\ WriteStep =>
          /\ ChannelPath(Channel) \in DOMAIN disk'
          /\ disk'[ChannelPath(Channel)] = states[cur].data
          /\ ScopeIsCurrent(disk'[ChannelPath(Channel)], Channel)]_vars
\* A run began with the document of c1 stored under its channel id, a former
\* category and a former channel name, and ended with a file at the path of
\* the current name that carries the current category and name and every
\* record the former file held.
C15_Witness ==
  /\ RunEnded /\ runClean
  /\ ChannelPath("c1") \in DOMAIN disk /\ ~IsCorrupt(disk[ChannelPath("c1")])
  /\ ScopeIsCurrent(disk[ChannelPath("c1")], "c1")
  /\ \E p \in (DOMAIN base) \ {ChannelPath("c1")} :
       /\ ~IsCorrupt(base[p])
       /\ base[p].channel_id = "c1"
       /\ base[p].channel # chanName["c1"] /\ base[p].category # CategoryOf["c1"]
       /\ base[p].surveys # <<>>
       /\ \A l \in Lists : \A i \in 1..Len(base[p][l]) :
            HasRecord(disk[ChannelPath("c1")][l], base[p][l][i].message_id)

\* C16: One file per channel.  After any sequence of runs, no two channels
\* have their documents at the same path, and no two files of the store hold
\* a document of the same channel id.
C16_OneFilePerChannel ==
  RunEnded =>
    /\ \A c, d \in ChannelIds : c # d => ChannelPath(c) # ChannelPath(d)
    /\ \A p, q \in SoundFiles :
         (p # q /\ disk[p].channel_id # "") => disk[p].channel_id # disk[q].channel_id

\* The groups of conversations of channel c as the source lists them: the
\* channel itself, its live threads, its archived public threads and its
\* archived private threads.
GroupsOf(c) == <<(<<"">>), LiveThreads[c], ArchivedPublic[c], ArchivedPrivate[c]>>
GroupOf(c, t) == CHOOSE g \in 1..4 : \E k \in 1..Len(GroupsOf(c)[g]) : GroupsOf(c)[g][k] = t
IndexIn(c, t) == CHOOSE k \in 1..Len(GroupsOf(c)[GroupOf(c, t)]) : GroupsOf(c)[GroupOf(c, t)][k] = t
ComesBefore(c, s, t) ==
  \/ GroupOf(c, s) < GroupOf(c, t)
  \/ GroupOf(c, s) = GroupOf(c, t) /\ IndexIn(c, s) < IndexIn(c, t)
ChannelIndex(c) == CHOOSE i \in 1..Len(Channels) : Channels[i] = c
ThreadsOf(c) == {Conversations(c)[v] : v \in 1..Len(Conversations(c))}

C19_Ordering ==
  RunEnded =>
    \A p \in SoundFiles : \A l \in Lists : \A i, j \in 1..Len(disk[p][l]) :
      (i < j /\ disk[p][l][i].thread = disk[p][l][j].thread) =>
        disk[p][l][i].created_at.iso <= disk[p][l][j].created_at.iso

SlugChars == Range(LowerLetters) \cup Range(DigitChars) \cup {"-"}
WellFormedSlug(v) == v # <<>> /\ Len(v) <= 80 /\ \A i \in 1..Len(v) : v[i] \in SlugChars

\* C20: Slug determinism and totality.  Every call of the slug function, on
\* the empty string, on whitespace, on emoji and on strings of 300
\* characters as on any other string, returns a non-empty value of at most
\* 80 characters, each a lowercase letter, a digit or a hyphen; and a call
\* with the argument of the call before it returns the value that call
\* returned.
C20_SlugTotalDeterministic ==
  [][slugCalls' = slugCalls + 1 =>
       /\ WellFormedSlug(slugOut')
       /\ (slugCalls >= 1 /\ slugIn' = slugIn) => slugOut' = slugOut]_vars
\* The slug of a string of 300 emoji was computed twice: the names of the
\* emoji one after the other, cut at 80 characters.
C20_Witness ==
  /\ slugCalls = 2 /\ slugIn = [i \in 1..300 |-> "U+1F600"]
  /\ Len(slugOut) = 80
  /\ SubSeq(slugOut, 1, 26) = <<"g","r","i","n","n","i","n","g","-","f","a","c","e","g","r","i","n","n","i","n","g","-","f","a","c","e">>

\* The slug of the name is the hash-derived fallback (bot.py:131-133).
IsHashFallback(value) ==
  _safe_path_component(value) =
    <<"s","l","u","g","-">> \o Sha1Hex10(NFKC(Strip(value, {c \in Range(value) : IsSpace(c)})))

\* C21: Slug collisions.  Two different names neither of whose slugs is the
\* hash-derived fallback have different slugs.
C21_SlugCollisions ==
  (slugCalls = 1 /\ ~IsHashFallback(slugIn[1]) /\ ~IsHashFallback(slugIn[2])) =>
    slugOut[1] # slugOut[2]

\* The keys under which index f holds the record at position i.
KeysTo(f, i) == {k \in DOMAIN f : f[k] = i}

\* C22: Identity reachability.  In every document held in memory, each
\* record of each list is the value of exactly one index entry of its kind:
\* of the message id index, under its message id, when the id is non-empty,
\* and otherwise of the legacy index, under the composite key of its scope,
\* author, timestamp and content; it is in no other entry of either index.
C22_IdentityReachability ==
  \A h \in 1..Len(states) : \A kind \in Kinds :
    LET st == states[h]
        list == st.data[ListOf(kind)]
    IN \A i \in 1..Len(list) :
         IF list[i].message_id # ""
         THEN /\ KeysTo(st[ListOf(kind)], i) = {list[i].message_id}
              /\ KeysTo(st[LegacyOf(kind)], i) = {}
         ELSE /\ KeysTo(st[LegacyOf(kind)], i) = {EntryLegacyKey(st.data, list[i])}
              /\ KeysTo(st[ListOf(kind)], i) = {}

\* C23: Cooldown.  Every step in which the failure of a conversation is
\* caught, of whichever of the three kinds, sleeps for a cooldown before the
\* next conversation is started.
C23_Cooldown == [][\A f \in failed' \ failed : f[4] > 0]_vars

\* The errors that are transient: rate limiting and other HTTP failures reach
\* the handler of discord.HTTPException, transport errors that of Exception.
Transient == {"HTTPException", "Exception"}

\* C24: Retry of transient errors.  The code attempts each conversation once
\* per run, so every transient failure is a first failure; the step that
\* catches it starts the same conversation of the same channel again instead
\* of leaving it.
C24_Retry == [][\A f \in failed' \ failed : f[3] \in Transient => (pc' = "history" /\ ci' = ci /\ vi' = vi /\ mi' = 1)]_vars

\* What identifies a record and what it says; the attachment references are
\* left aside, their stored names being fresh at every download.
RecordBody(r) == [message_id |-> r.message_id, author |-> r.author, content |-> r.content, created_at |-> r.created_at, thread |-> r.thread]
RecordBodies(list) == [i \in 1..Len(list) |-> RecordBody(list[i])]

\* C25: Crash recovery.  When a run without failures ends that followed,
\* over an unchanged source, a run that met no failure and then stopped
\* inside the persist of a document, the store file of that document's
\* channel holds, list by list, the records of the document the stopped run
\* was writing, which is the document an uninterrupted run would have left.
C25_CrashRecovery == (RunEnded /\ runClean /\ baseEnv = {} /\ unwritten # <<>> /\ unwritten[1].clean) => LET want == unwritten[1].data  p == ChannelPath(want.channel_id) IN p \in SoundFiles /\ \A l \in Lists : RecordBodies(disk[p][l]) = RecordBodies(want[l])

\* The remote ids of a list of attachment references.
RemoteIds(atts) == {atts[j].id : j \in 1..Len(atts)}
OneRefPerRemoteId(atts) == \A j1, j2 \in 1..Len(atts) : atts[j1].id = atts[j2].id => j1 = j2

\* C26: Attachment deduplication.  After every step, every record of every
\* document, in memory and in the store, holds at most one attachment
\* reference per remote id; and a message step leaves the references its
\* record held in place and appends references only for remote ids the record
\* did not hold.
C26_AttachmentDedup ==
  [][/\ \A d \in Documents' : \A l \in Lists : \A i \in 1..Len(d[l]) :
          OneRefPerRemoteId(d[l][i].attachments)
     /\ \A k \in Kinds :
          (pc = "history" /\ mi' = mi + 1 /\ Classify(CurrentMessage) = k
             /\ KnownPos(states[cur], k) # None) =>
            LET pos == KnownPos(states[cur], k)
                atts == states[cur].data[ListOf(k)][pos].attachments
                atts2 == states'[cur].data[ListOf(k)][pos].attachments
            IN /\ Len(atts2) >= Len(atts)
               /\ \A j \in 1..Len(atts) : atts2[j].id = atts[j].id
               /\ \A j \in (Len(atts) + 1)..Len(atts2) : atts2[j].id \notin RemoteIds(atts)]_vars
\* A second run has materialized the attachments of a message whose record
\* the store held with a reference for each of them, and the record holds
\* those two references and no other.
C26_Witness ==
  /\ runs = 2 /\ pc = "history" /\ Channel = "c1" /\ vi = 1 /\ mi = 2 /\ Len(dl) = 2
  /\ ChannelPath("c1") \in DOMAIN base /\ ~IsCorrupt(base[ChannelPath("c1")])
  /\ \E i \in 1..Len(base[ChannelPath("c1")].surveys) :
       LET r == base[ChannelPath("c1")].surveys[i] IN
       r.message_id = "m1" /\ RemoteIds(r.attachments) = {"a1", "a2"}
  /\ \E i \in 1..Len(states[cur].data.surveys) :
       LET r == states[cur].data.surveys[i] IN
       r.message_id = "m1" /\ Len(r.attachments) = 2 /\ RemoteIds(r.attachments) = {"a1", "a2"}

\* C27: Index and list stay in sync.  After every step, in every StoreState
\* and for each kind, every entry of the id index and of the legacy index
\* refers to a record of the document's list of that kind, every entry of the
\* id index is keyed by the message id its record stores, and every record
\* the step appended to a list is in the id index of that kind.
C27_IndexInSync ==
  [][\A h \in 1..Len(states') : \A kind \in Kinds :
       LET st2 == states'[h]
           list2 == st2.data[ListOf(kind)]
           before == IF h <= Len(states) /\ pc # "idle" /\ pc # "aborted" THEN Len(states[h].data[ListOf(kind)]) ELSE Len(list2)
       IN /\ \A k \in DOMAIN st2[ListOf(kind)] :
               /\ st2[ListOf(kind)][k] \in 1..Len(list2)
               /\ list2[st2[ListOf(kind)][k]].message_id = k
          /\ \A k \in DOMAIN st2[LegacyOf(kind)] : st2[LegacyOf(kind)][k] \in 1..Len(list2)
          /\ \A i \in (before + 1)..Len(list2) :
               /\ list2[i].message_id \in DOMAIN st2[ListOf(kind)]
               /\ st2[ListOf(kind)][list2[i].message_id] = i]_vars
\* A run has promoted the legacy survey record of m1, created the asset
\* record of m5 behind the loaded one, and both are in the id index.
C27_Witness ==
  /\ pc = "write" /\ Channel = "c1" /\ runs = 1
  /\ ChannelPath("c1") \in DOMAIN base /\ ~IsCorrupt(base[ChannelPath("c1")])
  /\ Len(base[ChannelPath("c1")].surveys) = 1 /\ base[ChannelPath("c1")].surveys[1].message_id = ""
  /\ "m1" \in DOMAIN states[cur].surveys /\ states[cur].surveys["m1"] = 1
  /\ states[cur].survey_legacy = EmptyMap
  /\ "m5" \in DOMAIN states[cur].assets /\ states[cur].assets["m5"] = Len(states[cur].data.assets)
  /\ Len(states[cur].data.assets) > Len(base[ChannelPath("c1")].assets)

\* C28: No update on a messageId hit.  A message step whose message has an
\* id that is in the id index of its kind leaves the record at its position
\* in the list, under the same index entry, with every field but its
\* attachment list as it was, whatever the incoming author and content; the
\* other records of the list are unchanged.
C28_NoUpdateOnHit ==
  [][\A k \in Kinds :
       (pc = "history" /\ mi' = mi + 1 /\ Classify(CurrentMessage) = k
          /\ CurrentMessage.id \in DOMAIN states[cur][ListOf(k)]) =>
         LET pos == states[cur][ListOf(k)][CurrentMessage.id]
             list == states[cur].data[ListOf(k)]
             list2 == states'[cur].data[ListOf(k)]
         IN /\ states'[cur][ListOf(k)] = states[cur][ListOf(k)]
            /\ Len(list2) = Len(list)
            /\ \A i \in 1..Len(list) :
                 [list2[i] EXCEPT !.attachments = list[i].attachments] = list[i]
            /\ \A i \in (1..Len(list)) \ {pos} : list2[i] = list[i]]_vars
\* The marked message m1 was edited after it was archived; the run found its
\* record by id and went past it, and the record holds the former content.
C28_Witness ==
  /\ pc = "history" /\ Channel = "c1" /\ vi = 1 /\ mi = 2
  /\ content["m1"] = <<KEYWORD, "y">>
  /\ ChannelPath("c1") \in DOMAIN base /\ ~IsCorrupt(base[ChannelPath("c1")])
  /\ HasRecord(base[ChannelPath("c1")].surveys, "m1")
  /\ "m1" \in DOMAIN states[cur].surveys
  /\ states[cur].data.surveys[states[cur].surveys["m1"]].content = <<KEYWORD, "x">>
  /\ Len(states[cur].data.surveys[states[cur].surveys["m1"]].attachments) = 2

\* The records of the messages a failed conversation f had processed are in
\* document d.
KeptFrom(f, d) ==
  \A n \in 1..f[5] :
    LET m == Message(History(f[1], f[2])[n]) IN
    Classify(m) # "none" => HasRecord(d[ListOf(Classify(m))], m.id)

\* C29: No rollback on a failed conversation.  The step that catches the
\* failure of a conversation leaves every document in memory as it was; the
\* persist of the channel writes a file that holds the records of the
\* messages processed before each failure in that channel, and after the
\* final flush the store file of every channel with a failed conversation
\* holds them.
C29_NoRollback ==
  [][/\ failed' # failed /\ pc = "history" => states' = states
     /\ (pc = "write" /\ pc' # "aborted") =>
          \A f \in failed : f[1] = Channel =>
            states[cur].path \in DOMAIN disk' /\ KeptFrom(f, disk'[states[cur].path])
     /\ (pc = "flush" /\ pc' = "idle") =>
          \A f \in failed :
            ChannelPath(f[1]) \in DOMAIN disk' /\ KeptFrom(f, disk'[ChannelPath(f[1])])]_vars
\* The history of c1 failed after m1 was processed; the run went to its end
\* and the store, empty before, holds the record of m1 with its references.
C29_Witness ==
  /\ RunEnded /\ runs = 1 /\ base = EmptyDisk
  /\ failed = {<<"c1", "", "HTTPException", 1, 1>>}
  /\ \E i \in 1..Len(disk[ChannelPath("c1")].surveys) :
       LET r == disk[ChannelPath("c1")].surveys[i] IN
       r.message_id = "m1" /\ RemoteIds(r.attachments) = {"a1", "a2"}
  /\ Logged("write") # {} /\ Logged("flush") # {}

OtherKind(k) == IF k = "survey" THEN "asset" ELSE "survey"

====
